---- MODULE Spec2Model ----
(***************************************************************************)
(* Model of the transaction / exchange-rate reconciliation service of      *)
(* wex-technical-implementation-project: the BoltDB transaction store, the *)
(* rate collaborator as seen through its interface, and                    *)
(* TransactionService.FindTransactionAndExchangeRateFromCurrency.          *)
(*                                                                         *)
(* A time.Time in UTC is modelled as the number of seconds since           *)
(* 1970-01-01T00:00:00Z.  calls is the log of the collaborator methods the *)
(* current call of the service has invoked, as the mocks of the service    *)
(* tests record it.                                                        *)
(***************************************************************************)
EXTENDS Integers, Sequences, FiniteSets, TLC

\* the store and one call of the service
VARIABLES bucket, pc, id, currencyName, transaction, exchangeRates, fetchErr, ret,
          calls
\* one use of RoundToTwoDecimalPlaces: the decimal literal of the argument,
\* the argument and the results of the successive applications
VARIABLES literal, argument, rounded
\* the HTTP response of TransactionHandler.FindTransactionWithCurrencyConversion
VARIABLES response
\* one call of a constructor of the domain: the function with its arguments,
\* and what it returned
VARIABLES call, result
\* the BoltDB repository seen by its user: whether the database is open,
\* the transaction last saved under each identifier with whether the
\* repository was reopened since, and what the last FindTransaction returned
VARIABLES open, saved, found
\* the repository under concurrent calls: who holds rwMutex, what each
\* goroutine is doing, and the Put of the write transaction not yet committed
VARIABLES rwMutex, goroutine, writeTx
\* one call of GetExchangeRates of the Treasury adapter: where it is, the
\* loop counter, what the last Get returned, the Gets and Sleeps so far,
\* and what the call returned
VARIABLES clientPc, attempt, resp, transportErr, trace, clientRet

serviceVars == <<bucket, pc, id, currencyName, transaction, exchangeRates, fetchErr,
                 ret, calls>>
roundVars == <<literal, argument, rounded>>
constructorVars == <<call, result>>
repositoryVars == <<open, saved, found>>
lockVars == <<rwMutex, goroutine, writeTx>>
clientVars == <<clientPc, attempt, resp, transportErr, trace, clientRet>>
nonServiceVars ==
    <<roundVars, response, constructorVars, repositoryVars, lockVars, clientVars>>
vars == <<serviceVars, nonServiceVars>>

----------------------------------------------------------------------------
(* Bounds of the model *)

\* longest rate series the rate collaborator returns
MaxLen == 3
\* number of distinct transaction identifiers
NumIds == 2
\* largest argument of RoundToTwoDecimalPlaces drawn from the whole range of
\* literals with three decimals, in thousandths
MaxThousandths == 150
\* number of goroutines that call the repository at the same time
NumGoroutines == 2

----------------------------------------------------------------------------
(* Calendar arithmetic of time.Time (UTC, proleptic Gregorian) *)

SecondsPerDay == 24 * 60 * 60

IsLeap(y) == (y % 4 = 0) /\ ((y % 100 # 0) \/ (y % 400 = 0))

\* days in the non-leap year before the first of month m (1..12)
DaysBefore(m) == <<0, 31, 59, 90, 120, 151, 181, 212, 243, 273, 304, 334>>[m]

\* leap days in the years 1..n
LeapsThrough(n) == (n \div 4) - (n \div 100) + (n \div 400)

\* days from 1970-01-01 to January 1st of year y
DaysBeforeYear(y) == 365 * (y - 1970) + LeapsThrough(y - 1) - LeapsThrough(1969)

\* time.Date(year, month, day, 0, 0, sec, 0, UTC): month and day may be
\* outside their usual ranges and are normalised (October 32 is November 1,
\* February 31 is March 3 or March 2)
Date(year, month, day, sec) ==
    LET y == year + ((month - 1) \div 12)
        m == ((month - 1) % 12) + 1
        leapDay == IF IsLeap(y) /\ m > 2 THEN 1 ELSE 0
        days == DaysBeforeYear(y) + DaysBefore(m) + leapDay + (day - 1)
    IN  days * SecondsPerDay + sec

\* t.Date() and t.Clock(): the civil fields of an instant
Civil(t) ==
    LET n == t \div SecondsPerDay
        z == n + 719468
        era == z \div 146097
        doe == z - era * 146097
        yoe == (doe - (doe \div 1460) + (doe \div 36524) - (doe \div 146096)) \div 365
        doy == doe - (365 * yoe + (yoe \div 4) - (yoe \div 100))
        mp == (5 * doy + 2) \div 153
        d == doy - ((153 * mp + 2) \div 5) + 1
        m == IF mp < 10 THEN mp + 3 ELSE mp - 9
        y == yoe + era * 400 + (IF m <= 2 THEN 1 ELSE 0)
    IN  [year |-> y, month |-> m, day |-> d, sec |-> t % SecondsPerDay]

\* t.AddDate(years, months, days)
AddDate(t, years, months, days) ==
    LET c == Civil(t)
    IN  Date(c.year + years, c.month + months, c.day + days, c.sec)

\* t.Before(u) and t.After(u)
Before(t, u) == t < u
After(t, u) == t > u

----------------------------------------------------------------------------
(* float64 arithmetic.  A natural number of any size is a sequence of      *)
(* limbs in base 10^4, least significant first, without leading zero       *)
(* limbs.  A finite float64 is [neg, m, e] with the value                  *)
(* (-1)^neg * m * 2^e, where 2^52 <= m < 2^53, or m = 0 and e = 0.         *)
(* Subnormal numbers, infinities and NaN are outside the model.            *)

Base == 100 * 100

\* the limbs of a natural number that fits an Int
RECURSIVE BigFromInt(_)
BigFromInt(n) == IF n = 0 THEN <<>> ELSE <<n % Base>> \o BigFromInt(n \div Base)

\* the Int of a natural number below 2^31
RECURSIVE BigToInt(_)
BigToInt(a) == IF a = <<>> THEN 0 ELSE a[1] + Base * BigToInt(Tail(a))

\* The operators below hand every intermediate result to a local operator
\* as its argument, so that a result is written once where it is computed.

\* the limbs lo..hi of a times an Int c >= 1, with the carry into limb lo:
\* [limbs |-> the product's limbs lo..hi, carry |-> the carry out of limb hi].
\* The range is halved so that long numbers do not nest deeply
RECURSIVE MulLimbs(_, _, _, _, _)
MulLimbs(a, c, lo, hi, carry) ==
    IF lo = hi
    THEN [limbs |-> <<(a[lo] * c + carry) % Base>>,
          carry |-> (a[lo] * c + carry) \div Base]
    ELSE LET Join(low, high) ==
                 [limbs |-> low.limbs \o high.limbs, carry |-> high.carry]
             Upper(low) ==
                 Join(low, MulLimbs(a, c, (lo + hi) \div 2 + 1, hi, low.carry))
         IN  Upper(MulLimbs(a, c, lo, (lo + hi) \div 2, carry))

\* a * c for an Int c >= 1
BigMulSmall(a, c) ==
    LET WithCarry(p) == p.limbs \o BigFromInt(p.carry)
    IN  IF a = <<>> THEN <<>> ELSE WithCarry(MulLimbs(a, c, 1, Len(a), 0))

\* a without leading zero limbs
BigTrim(a) ==
    IF \A i \in 1..Len(a) : a[i] = 0
    THEN <<>>
    ELSE SubSeq(a, 1, CHOOSE i \in 1..Len(a) :
                          a[i] # 0 /\ \A j \in (i + 1)..Len(a) : a[j] = 0)

\* long division of the limbs hi..lo of a by an Int c >= 1, rem carried down
\* from the limbs above hi: [q |-> the quotient's limbs hi..lo, the most
\* significant first, r |-> remainder]
RECURSIVE DivLimbs(_, _, _, _, _)
DivLimbs(a, c, lo, hi, rem) ==
    IF lo = hi
    THEN [q |-> <<(rem * Base + a[lo]) \div c>>, r |-> (rem * Base + a[lo]) % c]
    ELSE LET Join(high, low) == [q |-> high.q \o low.q, r |-> low.r]
             Lower(high) ==
                 Join(high, DivLimbs(a, c, lo, (lo + hi) \div 2, high.r))
         IN  Lower(DivLimbs(a, c, (lo + hi) \div 2 + 1, hi, rem))

\* a divided by an Int c >= 1: [q |-> quotient, r |-> remainder]
BigDivSmall(a, c) ==
    LET Reversed(d) ==
            [q |-> BigTrim([i \in 1..Len(a) |-> d.q[Len(a) + 1 - i]]), r |-> d.r]
    IN  IF a = <<>>
        THEN [q |-> <<>>, r |-> 0]
        ELSE Reversed(DivLimbs(a, c, 1, Len(a), 0))

\* the limbs lo..hi of a + b, with the carry into limb lo
RECURSIVE AddLimbs(_, _, _, _, _)
AddLimbs(a, b, lo, hi, carry) ==
    IF lo = hi
    THEN LET Limb(v) == [limbs |-> <<v % Base>>, carry |-> v \div Base]
         IN  Limb((IF lo <= Len(a) THEN a[lo] ELSE 0)
                  + (IF lo <= Len(b) THEN b[lo] ELSE 0) + carry)
    ELSE LET Join(low, high) ==
                 [limbs |-> low.limbs \o high.limbs, carry |-> high.carry]
             Upper(low) ==
                 Join(low, AddLimbs(a, b, (lo + hi) \div 2 + 1, hi, low.carry))
         IN  Upper(AddLimbs(a, b, lo, (lo + hi) \div 2, carry))

\* a + b
BigAdd(a, b) ==
    LET WithCarry(p) == p.limbs \o BigFromInt(p.carry)
        Limbs(n) == IF n = 0 THEN <<>> ELSE WithCarry(AddLimbs(a, b, 1, n, 0))
    IN  Limbs(IF Len(a) > Len(b) THEN Len(a) ELSE Len(b))

\* a * b, by the limbs of b from limb i on
RECURSIVE MulFrom(_, _, _)
MulFrom(a, b, i) ==
    IF i > Len(b)
    THEN <<>>
    ELSE LET Shifted(rest) == IF rest = <<>> THEN <<>> ELSE <<0>> \o rest
             Added(high) ==
                 IF b[i] = 0 THEN high ELSE BigAdd(BigMulSmall(a, b[i]), high)
         IN  Added(Shifted(MulFrom(a, b, i + 1)))

BigMul(a, b) == IF a = <<>> THEN <<>> ELSE MulFrom(a, b, 1)

\* a < b, decided at the highest limb where they differ
BigLess(a, b) ==
    IF Len(a) # Len(b)
    THEN Len(a) < Len(b)
    ELSE \E i \in 1..Len(a) :
             a[i] < b[i] /\ \A j \in (i + 1)..Len(a) : a[j] = b[j]

BigIsOdd(a) == a # <<>> /\ a[1] % 2 = 1

\* 2^52, 2^53 and 2^54
Two52 == <<496, 2737, 5996, 4503>>
Two53 == <<992, 5474, 1992, 9007>>
Two54 == <<1984, 948, 3985, 8014, 1>>

\* q >= 2^54 shifted right until it has 54 bits, thirteen bits at a time
\* while it is long; sticky records a lost one bit
RECURSIVE ShiftDown(_, _, _)
ShiftDown(q, sticky, e) ==
    LET Chunk(d) == ShiftDown(d.q, sticky \/ d.r # 0, e + 13)
    IN  IF BigLess(q, Two54)
        THEN [q |-> q, sticky |-> sticky, e |-> e]
        ELSE IF ~BigLess(q, BigMulSmall(Two54, 2 ^ 13))
        THEN Chunk(BigDivSmall(q, 2 ^ 13))
        ELSE ShiftDown(BigDivSmall(q, 2).q, sticky \/ BigIsOdd(q), e + 1)

\* n > 0 shifted left until n \div c has 54 bits, thirteen bits at a time
\* while the quotient is short
RECURSIVE ShiftUp(_, _, _)
ShiftUp(n, c, e) ==
    LET Quotient(d) ==
            IF BigLess(BigMulSmall(d.q, 2 ^ 13), Two53)
            THEN ShiftUp(BigMulSmall(n, 2 ^ 13), c, e - 13)
            ELSE IF BigLess(d.q, Two53)
            THEN ShiftUp(BigMulSmall(n, 2), c, e - 1)
            ELSE [q |-> d.q, sticky |-> d.r # 0, e |-> e]
    IN  Quotient(BigDivSmall(n, c))

\* the float64 nearest to (-1)^neg * (n / c) * 2^e, ties to even: the
\* rounding of every float64 operation and of a decimal literal.  s is the
\* quotient with 54 bits, m its 53 leading bits, m1 the mantissa rounded
RoundToFloat64(neg, n, c, e) ==
    LET Pack(s, m1) ==
            IF m1 = Two53
            THEN [neg |-> neg, m |-> Two52, e |-> s.e + 2]
            ELSE [neg |-> neg, m |-> m1, e |-> s.e + 1]
        Round(s, m) ==
            Pack(s, IF BigIsOdd(s.q) /\ (s.sticky \/ BigIsOdd(m))
                    THEN BigAdd(m, <<1>>) ELSE m)
        Halve(s) == Round(s, BigDivSmall(s.q, 2).q)
        Shift(d) ==
            Halve(IF BigLess(d.q, Two53)
                  THEN ShiftUp(n, c, e)
                  ELSE ShiftDown(d.q, d.r # 0, e))
    IN  IF n = <<>>
        THEN [neg |-> neg, m |-> <<>>, e |-> 0]
        ELSE Shift(BigDivSmall(n, c))

\* the float64 of the decimal literal n / 10^d, with n given by its limbs
Float64FromDecimal(neg, n, d) == RoundToFloat64(neg, n, 10 ^ d, 0)

\* the float64 of k hundredths, k an Int
Hundredths(k) ==
    IF k < 0 THEN Float64FromDecimal(TRUE, BigFromInt(-k), 2)
             ELSE Float64FromDecimal(FALSE, BigFromInt(k), 2)

\* x * y
Float64Mul(x, y) == RoundToFloat64(x.neg # y.neg, BigMul(x.m, y.m), 1, x.e + y.e)

\* x * 100 and x / 100: 100 is 25 * 2^2
Float64Mul100(x) == RoundToFloat64(x.neg, BigMulSmall(x.m, 25), 1, x.e + 2)
Float64Div100(x) == RoundToFloat64(x.neg, x.m, 25, x.e - 2)

\* m shifted right by t bits, thirteen bits at a time
RECURSIVE BigShiftRight(_, _)
BigShiftRight(m, t) ==
    IF t = 0 \/ m = <<>> THEN m
    ELSE IF t >= 13 THEN BigShiftRight(BigDivSmall(m, 2 ^ 13).q, t - 13)
    ELSE BigDivSmall(m, 2 ^ t).q

\* math.Round(x): the nearest integer, halves away from zero
MathRound(x) ==
    IF x.e >= 0
    THEN x
    ELSE LET HalfUp(q, h) == IF BigIsOdd(q) THEN BigAdd(h, <<1>>) ELSE h
             Halves(q) == HalfUp(q, BigDivSmall(q, 2).q)
         IN  RoundToFloat64(x.neg, Halves(BigShiftRight(x.m, (-x.e) - 1)), 1, 0)

\* math.NaN(), the float64 that compares false with every float64
Float64NaN == [nan |-> TRUE]
Float64IsNaN(x) == x = Float64NaN

\* x > 0 on float64
Float64IsPositive(x) == ~Float64IsNaN(x) /\ ~x.neg /\ x.m # <<>>

\* x <= 0 on float64
Float64AtMostZero(x) == ~Float64IsNaN(x) /\ ~Float64IsPositive(x)

\* new(big.Float).SetPrec(64).SetFloat64(x): a mantissa of 64 bits
BigFloatSetFloat64(x) ==
    IF x.m = <<>>
    THEN [neg |-> x.neg, mant |-> <<>>, exp |-> 0]
    ELSE [neg |-> x.neg, mant |-> BigMulSmall(x.m, 2 ^ 11), exp |-> x.e - 11]

\* b.Float64(): the nearest float64
BigFloatFloat64(b) == RoundToFloat64(b.neg, b.mant, 1, b.exp)

\* 2^63, 2^64 and 2^65
Two63 == <<5808, 5477, 368, 3372, 922>>
Two64 == <<1616, 955, 737, 6744, 1844>>
Two65 == <<3232, 1910, 1474, 3488, 3689>>

\* m halved while it is even: [m, e] with m odd and m * 2^e unchanged
RECURSIVE OddPart(_, _)
OddPart(m, e) ==
    IF BigIsOdd(m) THEN [m |-> m, e |-> e] ELSE OddPart(BigDivSmall(m, 2).q, e + 1)

\* a * 2^k, thirteen factors at a time
RECURSIVE BigMulPow2(_, _)
BigMulPow2(a, k) ==
    IF k = 0 THEN a
    ELSE IF k >= 13 THEN BigMulPow2(BigMulSmall(a, 2 ^ 13), k - 13)
    ELSE BigMulSmall(a, 2 ^ k)

\* a * 5^k, five factors at a time
RECURSIVE BigMulPow5(_, _)
BigMulPow5(a, k) ==
    IF k = 0 THEN a
    ELSE IF k >= 5 THEN BigMulPow5(BigMulSmall(a, 5 ^ 5), k - 5)
    ELSE BigMulSmall(a, 5 ^ k)

\* b.MarshalText(): the decimal text of b, as [neg, digits, places] for the
\* value digits / 10^places.  The text is written with all the digits of b;
\* Go drops the trailing digits that UnmarshalText does not need to come
\* back to b
BigFloatMarshalText(b) ==
    IF b.mant = <<>>
    THEN [neg |-> b.neg, digits |-> <<>>, places |-> 0]
    ELSE LET Text(o) ==
                 IF o.e >= 0
                 THEN [neg |-> b.neg, digits |-> BigMulPow2(o.m, o.e), places |-> 0]
                 ELSE [neg |-> b.neg, digits |-> BigMulPow5(o.m, -o.e),
                       places |-> -o.e]
         IN  Text(OddPart(b.mant, b.exp))

\* a divided by 5^k, five factors at a time; sticky records a remainder
\* that was dropped
RECURSIVE DivByFives(_, _, _)
DivByFives(a, k, sticky) ==
    IF k = 0
    THEN [q |-> a, sticky |-> sticky]
    ELSE LET Rest(n, d) == DivByFives(d.q, k - n, sticky \/ d.r # 0)
             Chunk(n) == Rest(n, BigDivSmall(a, 5 ^ n))
         IN  Chunk(IF k >= 5 THEN 5 ELSE k)

\* q >= 2^65 shifted right until it has 65 bits, thirteen bits at a time
\* while it is long
RECURSIVE ShiftDown65(_, _, _)
ShiftDown65(q, sticky, e) ==
    LET Chunk(d) == ShiftDown65(d.q, sticky \/ d.r # 0, e + 13)
    IN  IF BigLess(q, Two65)
        THEN [q |-> q, sticky |-> sticky, e |-> e]
        ELSE IF ~BigLess(q, BigMulSmall(Two65, 2 ^ 13))
        THEN Chunk(BigDivSmall(q, 2 ^ 13))
        ELSE ShiftDown65(BigDivSmall(q, 2).q, sticky \/ BigIsOdd(q), e + 1)

\* z.UnmarshalText(text) for a z of precision 0: the value of the text
\* rounded to 64 bits, ties to even.  digits / 10^places is
\* (digits * 2^s / 5^places) * 2^-(s + places), with s large enough for a
\* quotient of more than 65 bits: a limb is more than 13 bits and 5^3 < 2^7
BigFloatUnmarshalText(text) ==
    IF text.digits = <<>>
    THEN [neg |-> text.neg, mant |-> <<>>, exp |-> 0]
    ELSE LET Pack(r, m1) ==
                 IF m1 = Two64
                 THEN [neg |-> text.neg, mant |-> Two63, exp |-> r.e + 2]
                 ELSE [neg |-> text.neg, mant |-> m1, exp |-> r.e + 1]
             Round(r, m) ==
                 Pack(r, IF BigIsOdd(r.q) /\ (r.sticky \/ BigIsOdd(m))
                         THEN BigAdd(m, <<1>>) ELSE m)
             Halve(r) == Round(r, BigDivSmall(r.q, 2).q)
             Shift(s, d) == Halve(ShiftDown65(d.q, d.sticky, -(s + text.places)))
             Scale(s) ==
                 Shift(s, DivByFives(BigMulPow2(text.digits, s), text.places, FALSE))
             AtLeastZero(est) == Scale(IF est > 0 THEN est ELSE 0)
         IN  AtLeastZero((7 * text.places) \div 3 + 67
                         - 13 * (Len(text.digits) - 1))

\* math.Trunc(x): the integer part
MathTrunc(x) ==
    IF x.e >= 0
    THEN x
    ELSE RoundToFloat64(x.neg, BigShiftRight(x.m, -x.e), 1, 0)

\* the rounding done by cutting the digits after the second decimal
RoundToTwoDecimalPlacesTruncated(value) ==
    Float64Div100(MathTrunc(Float64Mul100(value)))

\* domain.RoundToTwoDecimalPlaces(value): math.Round(value*100) / 100
RoundToTwoDecimalPlaces(value) == Float64Div100(MathRound(Float64Mul100(value)))

----------------------------------------------------------------------------
(* Values *)

\* a nil pointer, a nil error
Nil == [nil |-> TRUE]

IDs == 1..NumIds

\* 15:04:05 as seconds of the day
Clock150405 == 15 * 3600 + 4 * 60 + 5

\* 2023-08-31T15:04:05Z: six months earlier is February 31, which AddDate
\* normalises to 2023-03-03
TimeA == Date(2023, 8, 31, Clock150405)

\* 2023-09-03T15:04:05Z: six months earlier is 2023-03-03 as well
TimeB == Date(2023, 9, 3, Clock150405)

\* timestamps of the transactions that get saved
TxTimes == {TimeA, TimeB}

\* domain.Transaction values handed to SaveTransaction, with the amount 28.75
Transactions ==
    [ID : IDs, Description : {"Sample"}, Timestamp : TxTimes,
     AmountInUSD : {BigFloatSetFloat64(Hundredths(2875))}]

\* dates of record the rate collaborator reports: around the window floor of
\* the transaction timestamps, inside the window, and after the transactions
RateDates ==
    { Date(2023, 3, 2, Clock150405),     \* one day below the floor
      Date(2023, 3, 3, Clock150405),     \* the floor itself
      Date(2023, 3, 4, Clock150405),     \* one day above the floor
      Date(2023, 5, 31, Clock150405),    \* three months before TimeA
      Date(2023, 10, 1, Clock150405),    \* one month after TimeA (September 31)
      Date(2023, 10, 31, Clock150405) }  \* two months after TimeA

CurrencyNames == {"Real"}

\* domain.ExchangeRate values (rates in ten-thousandths)
ExchangeRates == [CurrencyName : CurrencyNames, Rate : {52500}, DateOfRecord : RateDates]

\* the rate series the collaborator may return, in any order, with duplicates
RateSeries == UNION {[1..n -> ExchangeRates] : n \in 0..MaxLen}

\* error values
ErrTransactionNotFound == [error |-> "transaction not found"]
ErrNetworkIssue == [error |-> "network issue while fetching exchange rate data"]
ErrTreasuryAPIResponse == [error |-> "error from the Treasury API"]
ErrDecodingResponse == [error |-> "error decoding response from Treasury API"]
ErrExchangeRateNotFound == [error |-> "no exchange rate found for the provided currency"]

\* the errors GetExchangeRates returns
FetchErrors ==
    {ErrNetworkIssue, ErrTreasuryAPIResponse, ErrDecodingResponse, ErrExchangeRateNotFound}

\* fmt.Errorf("no exchange rate found within the last 6 months for currency %s", c)
ErrNoRateInWindow(c) ==
    [error |-> "no exchange rate found within the last 6 months for currency", currency |-> c]

----------------------------------------------------------------------------
(* The BoltDB repository: json.Marshal / json.Unmarshal of a transaction *)

\* json.Marshal(transaction): the timestamp is written as its RFC 3339
\* fields, the amount as the text of the big.Float
MarshalTransaction(t) ==
    [ID |-> t.ID, Description |-> t.Description,
     Timestamp |-> Civil(t.Timestamp),
     AmountInUSD |-> BigFloatMarshalText(t.AmountInUSD)]

\* json.Unmarshal(data, &transaction)
UnmarshalTransaction(j) ==
    [ID |-> j.ID, Description |-> j.Description,
     Timestamp |-> Date(j.Timestamp.year, j.Timestamp.month, j.Timestamp.day, j.Timestamp.sec),
     AmountInUSD |-> BigFloatUnmarshalText(j.AmountInUSD)]

\* FindTransaction without the check for a missing key: json.Unmarshal of no
\* data fails with its own error
RepoFindTransactionNoNilCheck(b, i) ==
    IF i \notin DOMAIN b
    THEN [transaction |-> Nil, err |-> [error |-> "unexpected end of JSON input"]]
    ELSE [transaction |-> UnmarshalTransaction(b[i]), err |-> Nil]

\* TransactionRepositoryBoltDB.FindTransaction(id): <<transaction, err>>
RepoFindTransaction(b, i) ==
    IF i \notin DOMAIN b
    THEN [transaction |-> Nil, err |-> ErrTransactionNotFound]
    ELSE [transaction |-> UnmarshalTransaction(b[i]), err |-> Nil]

----------------------------------------------------------------------------
(* The selection loop of FindTransactionAndExchangeRateFromCurrency *)

\* the window test left out: no rate is skipped
SkipsRateNever(exchangeRate, tx) == FALSE

\* the window reckoned as 180 days instead of six calendar months
SkipsRate180Days(exchangeRate, tx) ==
    Before(exchangeRate.DateOfRecord, AddDate(tx.Timestamp, 0, 0, -180))

\* the window test written as "not after the floor": a rate dated exactly at
\* the floor is skipped
SkipsRateAtFloor(exchangeRate, tx) ==
    ~After(exchangeRate.DateOfRecord, AddDate(tx.Timestamp, 0, -6, 0))

\* the loop skips a rate dated before transaction.Timestamp.AddDate(0, -6, 0)
SkipsRate(exchangeRate, tx) ==
    Before(exchangeRate.DateOfRecord, AddDate(tx.Timestamp, 0, -6, 0))

\* the replacement test without "after the transaction": the earliest
\* in-window rate wins
ReplacesClosestEarliest(closestExchangeRate, exchangeRate, tx) ==
    \/ closestExchangeRate = Nil
    \/ Before(exchangeRate.DateOfRecord, closestExchangeRate.DateOfRecord)

\* the replacement test with the comparison to the held rate turned around
ReplacesClosestLatest(closestExchangeRate, exchangeRate, tx) ==
    \/ closestExchangeRate = Nil
    \/ /\ After(exchangeRate.DateOfRecord, tx.Timestamp)
       /\ After(exchangeRate.DateOfRecord, closestExchangeRate.DateOfRecord)

\* the condition under which the loop assigns closestExchangeRate = exchangeRate
ReplacesClosest(closestExchangeRate, exchangeRate, tx) ==
    \/ closestExchangeRate = Nil
    \/ /\ After(exchangeRate.DateOfRecord, tx.Timestamp)
       /\ Before(exchangeRate.DateOfRecord, closestExchangeRate.DateOfRecord)

\* the for loop from position i on; closest is the index in rates of the
\* rate closestExchangeRate points to, 0 for a nil pointer
RECURSIVE SelectFrom(_, _, _, _)
SelectFrom(rates, i, closest, tx) ==
    IF i > Len(rates) THEN closest
    ELSE IF SkipsRate(rates[i], tx) THEN SelectFrom(rates, i + 1, closest, tx)
    ELSE IF ReplacesClosest(IF closest = 0 THEN Nil ELSE rates[closest], rates[i], tx)
         THEN SelectFrom(rates, i + 1, i, tx)
         ELSE SelectFrom(rates, i + 1, closest, tx)

\* what the function returns after a successful fetch of both collaborators
SelectAndReturn(tx, rates, c) ==
    LET closest == SelectFrom(rates, 1, 0, tx)
    IN  IF closest = 0
        THEN [transaction |-> Nil, exchangeRate |-> 0, err |-> ErrNoRateInWindow(c)]
        ELSE [transaction |-> tx, exchangeRate |-> closest, err |-> Nil]

\* the error wrapped into a generic failure before it is returned
ReturnErrWrapped(e) ==
    [transaction |-> Nil, exchangeRate |-> 0,
     err |-> [error |-> "retrieving transaction and exchange rates", cause |-> e]]

\* the error test after FindTransaction left out: the function goes on to the
\* rate collaborator whatever the repository returned
FindFailedIgnored(r) == FALSE

\* if err != nil after transactionRepository.FindTransaction(id)
FindFailed(r) == r.err # Nil

\* return nil, nil, err
ReturnErr(e) == [transaction |-> Nil, exchangeRate |-> 0, err |-> e]

----------------------------------------------------------------------------
(* State machine *)

NoReturn == [transaction |-> Nil, exchangeRate |-> 0, err |-> Nil]

\* no use of RoundToTwoDecimalPlaces under way
RoundIdle == literal = Nil /\ argument = Nil /\ rounded = <<>>

\* an empty store and no call of the service under way
ServiceInit ==
    /\ bucket = [i \in {} |-> Nil]
    /\ pc = "idle"
    /\ id = 0
    /\ currencyName = ""
    /\ transaction = Nil
    /\ exchangeRates = <<>>
    /\ fetchErr = Nil
    /\ ret = NoReturn
    /\ calls = <<>>

\* no constructor called
ConstructorIdle == call = Nil /\ result = Nil

\* the repository just opened on a new file; nothing saved or looked up
RepositoryInit == open = TRUE /\ saved = [i \in {} |-> Nil] /\ found = Nil

\* the goroutines that call the repository at the same time
Goroutines == 1..NumGoroutines

\* a goroutine outside every call of the repository
GoroutineIdle == [pc |-> "idle", op |-> "none", arg |-> Nil, after |-> {}, found |-> Nil]

\* rwMutex unlocked, no goroutine in a call, no write transaction
LocksIdle ==
    /\ rwMutex = [writer |-> 0, readers |-> {}]
    /\ goroutine = [g \in Goroutines |-> GoroutineIdle]
    /\ writeTx = Nil

\* no call of GetExchangeRates under way
ClientIdle ==
    /\ clientPc = "idle"
    /\ attempt = 0
    /\ resp = Nil
    /\ transportErr = Nil
    /\ trace = <<>>
    /\ clientRet = Nil

Init ==
    /\ ServiceInit
    /\ RoundIdle
    /\ response = Nil
    /\ ConstructorIdle
    /\ RepositoryInit
    /\ LocksIdle
    /\ ClientIdle

\* TransactionService.SaveTransaction -> TransactionRepositoryBoltDB.SaveTransaction:
\* bucket.Put(transaction.ID, json.Marshal(transaction)). The service is
\* driven by one caller at a time: a save runs between two retrievals
SaveTransaction(t) ==
    /\ pc = "idle"
    /\ bucket' = [k \in DOMAIN bucket \cup {t.ID} |->
                      IF k = t.ID THEN MarshalTransaction(t) ELSE bucket[k]]
    /\ UNCHANGED <<pc, id, currencyName, transaction, exchangeRates, fetchErr, ret, calls>>
    /\ UNCHANGED nonServiceVars

\* a caller enters FindTransactionAndExchangeRateFromCurrency(i, c)
CallFind(i, c) ==
    /\ pc = "idle"
    /\ pc' = "findTransaction"
    /\ id' = i
    /\ currencyName' = c
    /\ UNCHANGED <<bucket, transaction, exchangeRates, fetchErr, ret, calls>>
    /\ UNCHANGED nonServiceVars

\* a lookup that takes the record it reads out of the bucket
BucketAfterTake(b, i) == [k \in DOMAIN b \ {i} |-> b[k]]

\* the bucket after boltDB.View: a read-only transaction leaves it as it is
BucketAfterView(b, i) == b

\* transaction, err := ts.transactionRepository.FindTransaction(id)
FindTransactionStep ==
    /\ pc = "findTransaction"
    /\ calls' = Append(calls, "FindTransaction")
    /\ LET r == RepoFindTransaction(bucket, id)
       IN  IF FindFailed(r)
           THEN /\ ret' = ReturnErr(r.err)
                /\ pc' = "done"
                /\ UNCHANGED transaction
           ELSE /\ transaction' = r.transaction
                /\ pc' = "getExchangeRates"
                /\ UNCHANGED ret
    /\ bucket' = BucketAfterView(bucket, id)
    /\ UNCHANGED <<id, currencyName, exchangeRates, fetchErr>>
    /\ UNCHANGED nonServiceVars

\* exchangeRates, err := ts.exchangeRateAdapter.GetExchangeRates(currencyName)
\* fails: the function returns nil, nil, err
GetExchangeRatesFails(e) ==
    /\ pc = "getExchangeRates"
    /\ calls' = Append(calls, "GetExchangeRates")
    /\ fetchErr' = e
    /\ ret' = ReturnErr(e)
    /\ pc' = "done"
    /\ UNCHANGED <<bucket, id, currencyName, transaction, exchangeRates>>
    /\ UNCHANGED nonServiceVars

\* GetExchangeRates returns a series: the selection loop runs and the
\* function returns
GetExchangeRatesSucceeds(rates) ==
    /\ pc = "getExchangeRates"
    /\ calls' = Append(calls, "GetExchangeRates")
    /\ exchangeRates' = rates
    /\ ret' = SelectAndReturn(transaction, rates, currencyName)
    /\ pc' = "done"
    /\ UNCHANGED <<bucket, id, currencyName, transaction, fetchErr>>
    /\ UNCHANGED nonServiceVars

\* the caller has the result; the locals of the call are gone
Return ==
    /\ pc = "done"
    /\ pc' = "idle"
    /\ id' = 0
    /\ currencyName' = ""
    /\ transaction' = Nil
    /\ exchangeRates' = <<>>
    /\ fetchErr' = Nil
    /\ ret' = NoReturn
    /\ calls' = <<>>
    /\ UNCHANGED bucket
    /\ UNCHANGED nonServiceVars

Next ==
    \/ \E t \in Transactions : SaveTransaction(t)
    \/ \E i \in IDs, c \in CurrencyNames : CallFind(i, c)
    \/ FindTransactionStep
    \/ \E e \in FetchErrors : GetExchangeRatesFails(e)
    \/ \E rates \in RateSeries : GetExchangeRatesSucceeds(rates)
    \/ Return

Spec == Init /\ [][Next]_vars

\* The service fed with series as the Treasury adapter builds them: dates of
\* record at UTC midnight, next to dates at the very instants the selection
\* compares with
WindowRateDates ==
    { Date(2023, 3, 3, 0),               \* midnight of the day of the floor
      Date(2023, 3, 3, Clock150405),     \* the floor itself, to the second
      Date(2023, 3, 4, 0),               \* the midnight after the floor
      TimeA,                             \* the instant of a transaction
      Date(2023, 9, 1, 0),               \* after TimeA and before TimeB
      Date(2023, 10, 1, 0) }             \* after both transactions

WindowRateSeries ==
    UNION {[1..n -> [CurrencyName : CurrencyNames, Rate : {52500},
                     DateOfRecord : WindowRateDates]] : n \in 0..MaxLen}

NextWindow ==
    \/ \E t \in Transactions : SaveTransaction(t)
    \/ \E i \in IDs, c \in CurrencyNames : CallFind(i, c)
    \/ FindTransactionStep
    \/ \E e \in FetchErrors : GetExchangeRatesFails(e)
    \/ \E rates \in WindowRateSeries : GetExchangeRatesSucceeds(rates)
    \/ Return

SpecWindow == Init /\ [][NextWindow]_vars

----------------------------------------------------------------------------
(* RoundToTwoDecimalPlaces applied to a float64 written as a decimal literal *)

\* literals with three decimals the unit tests and the handler examples use:
\* 1.005, 100.004, 123.45, 123.454, 123.455, 123.456
TestedThousandths == {1005, 100004, 123450, 123454, 123455, 123456}

\* 43616081667237.695
LargeLiteral == [neg |-> FALSE, digits |-> <<7695, 6723, 816, 3616, 4>>, places |-> 3]

Literals ==
    {[neg |-> s, digits |-> BigFromInt(n), places |-> 3] :
        s \in BOOLEAN, n \in (0..MaxThousandths) \cup TestedThousandths}
    \cup {LargeLiteral}

\* the float64 a literal stands for
LiteralValue(l) == Float64FromDecimal(l.neg, l.digits, l.places)

InitRound ==
    /\ ServiceInit
    /\ literal \in Literals
    /\ argument = LiteralValue(literal)
    /\ rounded = <<>>
    /\ response = Nil
    /\ ConstructorIdle
    /\ RepositoryInit
    /\ LocksIdle
    /\ ClientIdle

\* RoundToTwoDecimalPlaces applied to the argument, then to its own result
ApplyRound ==
    /\ literal # Nil
    /\ Len(rounded) < 2
    /\ rounded' = Append(rounded, RoundToTwoDecimalPlaces(
                       IF rounded = <<>> THEN argument ELSE rounded[Len(rounded)]))
    /\ UNCHANGED <<literal, argument, serviceVars, response, constructorVars, repositoryVars, lockVars, clientVars>>

NextRound == ApplyRound

SpecRound == InitRound /\ [][NextRound]_vars

----------------------------------------------------------------------------
(* The handler of GET /transactions/{id}/convert/{currency} on top of the  *)
(* service: stored amounts and rates are big.Float values                  *)

\* 2023-11-06T15:04:05Z
TimeC == Date(2023, 11, 6, Clock150405)

\* stored amounts 0.145, 1.004, 28.75 and 100.004, as decimal literals
HandlerAmounts ==
    {[neg |-> FALSE, digits |-> BigFromInt(n), places |-> 3] :
        n \in {145, 1004, 28750, 100004}}

HandlerTransactions ==
    {[ID |-> i, Description |-> "Sample", Timestamp |-> TimeC,
      AmountInUSD |-> BigFloatSetFloat64(LiteralValue(l))] :
        i \in IDs, l \in HandlerAmounts}

\* rates 1.15, 5.25 and 5.4345, as decimal literals
HandlerRates ==
    {[neg |-> FALSE, digits |-> BigFromInt(n), places |-> 4] :
        n \in {11500, 52500, 54345}}

\* 2023-01-01 is outside the window of TimeC, 2023-09-01 is inside
HandlerRateDates == {Date(2023, 1, 1, 0), Date(2023, 9, 1, 0)}

HandlerExchangeRates ==
    {[CurrencyName |-> c, Rate |-> BigFloatSetFloat64(LiteralValue(l)), DateOfRecord |-> d] :
        c \in CurrencyNames, l \in HandlerRates, d \in HandlerRateDates}

\* the series the rate collaborator returns: no or one observation
HandlerRateSeries == {<<>>} \cup {<<r>> : r \in HandlerExchangeRates}

\* the conversion done on the unrounded amount and rate
TransactionDTOOfUnrounded(t, exchangeRate) ==
    LET transactionAmountInUSD == BigFloatFloat64(t.AmountInUSD)
        exchangeRateUsed       == BigFloatFloat64(exchangeRate.Rate)
    IN  [ID |-> t.ID,
         Description |-> t.Description,
         Timestamp |-> Civil(t.Timestamp),
         AmountInUSD |-> RoundToTwoDecimalPlaces(transactionAmountInUSD),
         ExchangeRateUsed |-> RoundToTwoDecimalPlaces(exchangeRateUsed),
         AmountInTargetCurrency |->
             RoundToTwoDecimalPlaces(Float64Mul(transactionAmountInUSD, exchangeRateUsed))]

\* the TransactionDTO the handler builds from the service's result
TransactionDTOOf(t, exchangeRate) ==
    LET transactionAmountInUSD ==
            RoundToTwoDecimalPlaces(BigFloatFloat64(t.AmountInUSD))
        exchangeRateUsed ==
            RoundToTwoDecimalPlaces(BigFloatFloat64(exchangeRate.Rate))
    IN  [ID |-> t.ID,
         Description |-> t.Description,
         Timestamp |-> Civil(t.Timestamp),
         AmountInUSD |-> transactionAmountInUSD,
         ExchangeRateUsed |-> exchangeRateUsed,
         AmountInTargetCurrency |->
             RoundToTwoDecimalPlaces(Float64Mul(transactionAmountInUSD, exchangeRateUsed))]

\* the handler has the service's result: 404 with the fixed message on any
\* error, else 200 with the TransactionDTO
\* an error response that carries the text of the error of the service
ErrorResponseOfCause(err) == [status |-> 404, error |-> err.error]

\* WriteErrorResponse(w, http.StatusNotFound, "the purchase cannot be ...")
\* after the service returned err
ErrorResponseOf(err) ==
    [status |-> 404, error |-> "the purchase cannot be converted to the target currency"]

Respond ==
    /\ pc = "done"
    /\ response = Nil
    /\ response' =
           IF ret.err # Nil
           THEN ErrorResponseOf(ret.err)
           ELSE [status |-> 200,
                 data |-> TransactionDTOOf(ret.transaction, exchangeRates[ret.exchangeRate])]
    /\ UNCHANGED <<serviceVars, roundVars, constructorVars, repositoryVars, lockVars, clientVars>>

\* the response is written; the locals of the request are gone
ReturnResponse ==
    /\ pc = "done"
    /\ response # Nil
    /\ pc' = "idle"
    /\ id' = 0
    /\ currencyName' = ""
    /\ transaction' = Nil
    /\ exchangeRates' = <<>>
    /\ fetchErr' = Nil
    /\ ret' = NoReturn
    /\ calls' = <<>>
    /\ response' = Nil
    /\ UNCHANGED <<bucket, roundVars, constructorVars, repositoryVars, lockVars, clientVars>>

NextHandler ==
    \/ \E t \in HandlerTransactions : SaveTransaction(t)
    \/ \E i \in IDs, c \in CurrencyNames : CallFind(i, c)
    \/ FindTransactionStep
    \/ \E e \in FetchErrors : GetExchangeRatesFails(e)
    \/ \E rates \in HandlerRateSeries : GetExchangeRatesSucceeds(rates)
    \/ Respond
    \/ ReturnResponse

SpecHandler == Init /\ [][NextHandler]_vars

----------------------------------------------------------------------------
(* The constructors of the domain.  A string is the sequence of its        *)
(* characters; a time.Time argument is [t, zone]: the instant and the      *)
(* offset of its location in seconds.                                      *)

MaxDescriptionLength == 50

ErrDescriptionEmpty ==
    [error |-> "transaction description is required; it cannot be empty"]
ErrDescriptionTooLong ==
    [error |-> "transaction description is invalid; it must not exceed 50 characters"]
ErrInvalidTimestamp ==
    [error |-> "transaction timestamp is invalid; it cannot be in the future"]
ErrInvalidAmountInUSD ==
    [error |-> "transaction amount in USD is invalid; it must be greater than 0"]
ErrCurrencyEmpty == [error |-> "currency name is required; it cannot be empty"]
ErrInvalidExchangeRate == [error |-> "exchange rate is invalid; it must be greater than 0"]
ErrInvalidDate == [error |-> "date is invalid; it cannot be in the future"]

IsSpace(c) == c \in {" ", "\t", "\n", "\r"}

\* strings.TrimSpace(s)
RECURSIVE TrimSpace(_)
TrimSpace(s) ==
    IF s = <<>> THEN s
    ELSE IF IsSpace(s[1]) THEN TrimSpace(Tail(s))
    ELSE IF IsSpace(s[Len(s)]) THEN TrimSpace(SubSeq(s, 1, Len(s) - 1))
    ELSE s

\* ValidateDescription(description)
ValidateDescription(description) ==
    IF Len(description) = 0 THEN <<ErrDescriptionEmpty>>
    ELSE IF Len(description) > MaxDescriptionLength THEN <<ErrDescriptionTooLong>>
    ELSE <<>>

\* ValidateAmountInUSD(amountInUSD): amountInUSD <= 0 is an error
ValidateAmountInUSD(amountInUSD) ==
    IF ~Float64IsPositive(amountInUSD) THEN <<ErrInvalidAmountInUSD>> ELSE <<>>

\* ValidateTransaction that returns at the first validator that fails
ValidateTransactionFailFast(description, timestamp, amountInUSD, now) ==
    IF ValidateDescription(description) # <<>> THEN ValidateDescription(description)
    ELSE IF ValidateAmountInUSD(amountInUSD) # <<>> THEN ValidateAmountInUSD(amountInUSD)
    ELSE IF After(timestamp.t, now) THEN <<ErrInvalidTimestamp>>
    ELSE <<>>

\* ValidateTransaction(description, timestamp, amountInUSD), with time.Now()
\* read as now
ValidateTransaction(description, timestamp, amountInUSD, now) ==
    ValidateDescription(description)
        \o ValidateAmountInUSD(amountInUSD)
        \o (IF After(timestamp.t, now) THEN <<ErrInvalidTimestamp>> ELSE <<>>)

\* NewTransaction(description, timestamp, amountInUSD), with time.Now() read
\* as now and uuid.New() returning uuid: <<instance, errs>>
NewTransaction(description, timestamp, amountInUSD, now, uuid) ==
    LET trimmed == TrimSpace(description)
        errs    == ValidateTransaction(trimmed, timestamp, amountInUSD, now)
    IN  IF Len(errs) > 0
        THEN [instance |-> Nil, errs |-> errs]
        ELSE [instance |->
                  [ID |-> uuid,
                   Description |-> trimmed,
                   Timestamp |-> timestamp.t,
                   AmountInUSD |->
                       BigFloatSetFloat64(RoundToTwoDecimalPlaces(amountInUSD))],
              errs |-> <<>>]

\* ValidateExchangeRate(currency, rate, date), with time.Now() read as now
ValidateExchangeRate(currency, rate, date, now) ==
    (IF currency = <<>> THEN <<ErrCurrencyEmpty>> ELSE <<>>)
        \o (IF Float64AtMostZero(rate) THEN <<ErrInvalidExchangeRate>> ELSE <<>>)
        \o (IF After(date.t, now) THEN <<ErrInvalidDate>> ELSE <<>>)

\* the constructed rate
ExchangeRateOf(currency, rate, date) ==
    [CurrencyName |-> currency, Rate |-> BigFloatSetFloat64(rate), DateOfRecord |-> date.t]

\* NewExchangeRate without the early return: the instance is built whatever
\* the validation found
NewExchangeRateNoReject(currency, rate, date, now) ==
    [instance |-> ExchangeRateOf(currency, rate, date),
     errs |-> ValidateExchangeRate(currency, rate, date, now)]

\* the panic of big.Float.SetFloat64 on a NaN
PanicErrNaN == [panic |-> "big: Float.SetFloat64(NaN)"]

\* NewExchangeRate(currency, rate, date): <<instance, errs>>, or the panic of
\* SetFloat64 for a NaN that passed the validation
NewExchangeRate(currency, rate, date, now) ==
    LET errs == ValidateExchangeRate(currency, rate, date, now)
    IN  IF Len(errs) > 0
        THEN [instance |-> Nil, errs |-> errs]
        ELSE IF Float64IsNaN(rate) THEN PanicErrNaN
        ELSE [instance |-> ExchangeRateOf(currency, rate, date), errs |-> <<>>]

\* n times the character c
Chars(n, c) == [i \in 1..n |-> c]

\* descriptions: empty, blank, short, padded, of the greatest length, longer,
\* and of the greatest length once trimmed
Descriptions ==
    {<<>>, <<" ", " ">>, <<"a">>, <<" ", "a", "\t">>,
     Chars(MaxDescriptionLength, "a"), Chars(MaxDescriptionLength + 1, "a"),
     <<" ">> \o Chars(MaxDescriptionLength, "a") \o <<" ">>}

\* readings of the clock, and time.Time arguments before, at and after them,
\* in UTC and three hours west of it
Clocks == {TimeB, TimeC}
TimeArguments ==
    [t : {TimeA, TimeB, TimeC, TimeC + SecondsPerDay}, zone : {0, -(3 * 60 * 60)}]

\* amounts -50, 0, 0.004, 0.005, 28.75 and 100.004; rates -5.434, 0, 1.2, 5.434
ConstructorAmounts ==
    {LiteralValue([neg |-> TRUE, digits |-> BigFromInt(50000), places |-> 3])}
    \cup {LiteralValue([neg |-> FALSE, digits |-> BigFromInt(n), places |-> 3]) :
              n \in {0, 4, 5, 28750, 100004}}
ConstructorRates ==
    {LiteralValue([neg |-> TRUE, digits |-> BigFromInt(5434), places |-> 3])}
    \cup {LiteralValue([neg |-> FALSE, digits |-> BigFromInt(n), places |-> 3]) :
              n \in {0, 1200, 5434}}

\* currency names: empty, blank, and "Real" plain and padded
ConstructorCurrencies ==
    {<<>>, <<" ">>, <<" ", "\t">>, <<"R", "e", "a", "l">>, <<" ", "R", "e", "a", "l">>}

CallNewTransaction(description, timestamp, amountInUSD, now, uuid) ==
    /\ call = Nil
    /\ call' = [fn |-> "NewTransaction", description |-> description,
                timestamp |-> timestamp, amountInUSD |-> amountInUSD, now |-> now]
    /\ result' = NewTransaction(description, timestamp, amountInUSD, now, uuid)
    /\ UNCHANGED <<serviceVars, roundVars, response, repositoryVars, lockVars, clientVars>>

CallNewExchangeRate(currency, rate, date, now) ==
    /\ call = Nil
    /\ call' = [fn |-> "NewExchangeRate", currency |-> currency, rate |-> rate,
                date |-> date, now |-> now]
    /\ result' = NewExchangeRate(currency, rate, date, now)
    /\ UNCHANGED <<serviceVars, roundVars, response, repositoryVars, lockVars, clientVars>>

\* the caller is done with what the constructor returned
DropResult ==
    /\ call # Nil
    /\ call' = Nil
    /\ result' = Nil
    /\ UNCHANGED <<serviceVars, roundVars, response, repositoryVars, lockVars, clientVars>>

NextConstructor ==
    \/ \E description \in Descriptions, timestamp \in TimeArguments,
          amountInUSD \in ConstructorAmounts, now \in Clocks, uuid \in IDs :
           CallNewTransaction(description, timestamp, amountInUSD, now, uuid)
    \/ \E currency \in ConstructorCurrencies, rate \in ConstructorRates,
          date \in TimeArguments, now \in Clocks :
           CallNewExchangeRate(currency, rate, date, now)
    \/ DropResult

SpecConstructor == Init /\ [][NextConstructor]_vars

----------------------------------------------------------------------------
(* The BoltDB repository over sessions: bucket is the content of the bucket *)
(* in the database file                                                     *)

\* what bbolt returns for an Update or a View on a closed database
ErrDatabaseNotOpen == [error |-> "database not open"]

\* transactions with the amounts 0.14, 28.75, 100.5 and, unrounded, 100.004
RepositoryTransactions ==
    {[ID |-> i, Description |-> "giberish", Timestamp |-> ts, AmountInUSD |-> a] :
        i \in IDs, ts \in {TimeA, TimeC},
        a \in {BigFloatSetFloat64(Hundredths(14)),
                BigFloatSetFloat64(Hundredths(2875)),
                BigFloatSetFloat64(Hundredths(10050)),
                BigFloatSetFloat64(Float64FromDecimal(FALSE, BigFromInt(100004), 3))}}

\* a new session that deletes the bucket and creates it again
BucketRecreated(b) == [i \in {} |-> Nil]

\* the bucket as NewTransactionRepositoryBoltDB finds it on an existing
\* file: tx.CreateBucketIfNotExists leaves a bucket that exists as it is
BucketIfNotExists(b) == b

\* r.SaveTransaction(t): bucket.Put(t.ID, json.Marshal(t)); on a closed
\* database boltDB.Update fails and nothing is written
RepositorySave(t) ==
    /\ found' = Nil
    /\ IF open
       THEN /\ bucket' = [k \in DOMAIN bucket \cup {t.ID} |->
                             IF k = t.ID THEN MarshalTransaction(t) ELSE bucket[k]]
            /\ saved' = [k \in DOMAIN saved \cup {t.ID} |->
                            IF k = t.ID THEN [transaction |-> t, reopened |-> FALSE]
                                        ELSE saved[k]]
       ELSE UNCHANGED <<bucket, saved>>
    /\ UNCHANGED <<open, pc, id, currencyName, transaction, exchangeRates, fetchErr,
                   ret, calls, roundVars, response, constructorVars, lockVars, clientVars>>

\* r.FindTransaction(i)
RepositoryFind(i) ==
    /\ found' = IF open
                THEN [id |-> i] @@ RepoFindTransaction(bucket, i)
                ELSE [id |-> i, transaction |-> Nil, err |-> ErrDatabaseNotOpen]
    /\ UNCHANGED <<open, saved, serviceVars, roundVars, response, constructorVars, lockVars, clientVars>>

\* r.Close()
RepositoryClose ==
    /\ open
    /\ open' = FALSE
    /\ found' = Nil
    /\ UNCHANGED <<saved, serviceVars, roundVars, response, constructorVars, lockVars, clientVars>>

\* NewTransactionRepositoryBoltDB on the same file and bucket name
RepositoryReopen ==
    /\ ~open
    /\ open' = TRUE
    /\ bucket' = BucketIfNotExists(bucket)
    /\ saved' = [k \in DOMAIN saved |-> [saved[k] EXCEPT !.reopened = TRUE]]
    /\ found' = Nil
    /\ UNCHANGED <<pc, id, currencyName, transaction, exchangeRates, fetchErr, ret,
                   calls, roundVars, response, constructorVars, lockVars, clientVars>>

NextRepository ==
    \/ \E t \in RepositoryTransactions : RepositorySave(t)
    \/ \E i \in IDs : RepositoryFind(i)
    \/ RepositoryClose
    \/ RepositoryReopen

SpecRepository == Init /\ [][NextRepository]_vars

----------------------------------------------------------------------------
(* The BoltDB repository under concurrent calls.  Every goroutine runs    *)
(* SaveTransaction or FindTransaction one step at a time: the call, the    *)
(* lock of rwMutex, the bbolt transaction, the deferred unlock with the    *)
(* return, after which the goroutine is idle again.  bucket is what bbolt  *)
(* has committed, writeTx the Put of the write transaction before its      *)
(* commit; saved holds the transactions whose SaveTransaction has          *)
(* returned.  A goroutine that waits for the lock is let in whenever the   *)
(* lock is free: Go lets waiting readers and writers in in a fairer order, *)
(* which allows fewer interleavings, never more.                           *)

\* the transactions the goroutines save: one for each identifier, with the
\* amounts 100.75, 101.00, ...
LockTransactions ==
    {[ID |-> i, Description |-> "giberish", Timestamp |-> TimeA,
      AmountInUSD |-> BigFloatSetFloat64(Hundredths(10050 + 25 * i))] : i \in IDs}

\* a write lock that does not wait for the readers to leave
LockIgnoresReaders(m) == m.writer = 0

\* rwMutex.Lock() can return: no writer and no reader holds the lock
LockFree(m) == m.writer = 0 /\ m.readers = {}

\* a commit that keeps only what its own transaction has put
CommitAlone(b, w) == [k \in {w.ID} |-> w.data]

\* the bucket after the commit of the write transaction w on the bucket b
Commit(b, w) == [k \in DOMAIN b \cup {w.ID} |-> IF k = w.ID THEN w.data ELSE b[k]]

\* goroutine g calls r.SaveTransaction(t); the callers save transactions
\* with distinct identifiers
CallSaveTransaction(g, t) ==
    /\ goroutine[g].pc = "idle"
    /\ t.ID \notin DOMAIN saved
    /\ \A h \in Goroutines : goroutine[h].op = "save" => goroutine[h].arg.ID # t.ID
    /\ goroutine' = [goroutine EXCEPT ![g] =
           [pc |-> "Lock", op |-> "save", arg |-> t, after |-> {}, found |-> Nil]]
    /\ UNCHANGED <<rwMutex, writeTx, serviceVars, roundVars, response, constructorVars,
                   repositoryVars, clientVars>>

\* r.rwMutex.Lock() returns
Lock(g) ==
    /\ goroutine[g].pc = "Lock"
    /\ LockFree(rwMutex)
    /\ rwMutex' = [rwMutex EXCEPT !.writer = g]
    /\ goroutine' = [goroutine EXCEPT ![g].pc = "Put"]
    /\ UNCHANGED <<writeTx, serviceVars, roundVars, response, constructorVars,
                   repositoryVars, clientVars>>

\* inside r.boltDB.Update: json.Marshal and bucket.Put in the write transaction
Put(g) ==
    /\ goroutine[g].pc = "Put"
    /\ writeTx' = [ID |-> goroutine[g].arg.ID,
                   data |-> MarshalTransaction(goroutine[g].arg)]
    /\ goroutine' = [goroutine EXCEPT ![g].pc = "Commit"]
    /\ UNCHANGED <<rwMutex, serviceVars, roundVars, response, constructorVars,
                   repositoryVars, clientVars>>

\* r.boltDB.Update commits and returns nil
UpdateCommit(g) ==
    /\ goroutine[g].pc = "Commit"
    /\ bucket' = Commit(bucket, writeTx)
    /\ writeTx' = Nil
    /\ goroutine' = [goroutine EXCEPT ![g].pc = "Unlock"]
    /\ UNCHANGED <<rwMutex, pc, id, currencyName, transaction, exchangeRates, fetchErr,
                   ret, calls, roundVars, response, constructorVars, repositoryVars,
                   clientVars>>

\* the deferred r.rwMutex.Unlock(); SaveTransaction returns nil
Unlock(g) ==
    /\ goroutine[g].pc = "Unlock"
    /\ rwMutex' = [rwMutex EXCEPT !.writer = 0]
    /\ saved' = [k \in DOMAIN saved \cup {goroutine[g].arg.ID} |->
                    IF k = goroutine[g].arg.ID
                    THEN [transaction |-> goroutine[g].arg, reopened |-> FALSE]
                    ELSE saved[k]]
    /\ goroutine' = [goroutine EXCEPT ![g] = GoroutineIdle]
    /\ UNCHANGED <<writeTx, open, found, serviceVars, roundVars, response,
                   constructorVars, clientVars>>

\* goroutine g calls r.FindTransaction(i); after is the set of identifiers
\* whose SaveTransaction had returned before this call
CallFindTransaction(g, i) ==
    /\ goroutine[g].pc = "idle"
    /\ goroutine' = [goroutine EXCEPT ![g] =
           [pc |-> "RLock", op |-> "find", arg |-> [ID |-> i], after |-> DOMAIN saved,
            found |-> Nil]]
    /\ UNCHANGED <<rwMutex, writeTx, serviceVars, roundVars, response, constructorVars,
                   repositoryVars, clientVars>>

\* r.rwMutex.RLock() returns: no writer holds the lock
RLock(g) ==
    /\ goroutine[g].pc = "RLock"
    /\ rwMutex.writer = 0
    /\ rwMutex' = [rwMutex EXCEPT !.readers = @ \cup {g}]
    /\ goroutine' = [goroutine EXCEPT ![g].pc = "View"]
    /\ UNCHANGED <<writeTx, serviceVars, roundVars, response, constructorVars,
                   repositoryVars, clientVars>>

\* r.boltDB.View: bucket.Get and json.Unmarshal on what is committed
View(g) ==
    /\ goroutine[g].pc = "View"
    /\ goroutine' = [goroutine EXCEPT
           ![g].pc = "RUnlock",
           ![g].found = RepoFindTransaction(bucket, goroutine[g].arg.ID)]
    /\ UNCHANGED <<rwMutex, writeTx, serviceVars, roundVars, response, constructorVars,
                   repositoryVars, clientVars>>

\* the deferred r.rwMutex.RUnlock(); FindTransaction returns
RUnlock(g) ==
    /\ goroutine[g].pc = "RUnlock"
    /\ rwMutex' = [rwMutex EXCEPT !.readers = @ \ {g}]
    /\ goroutine' = [goroutine EXCEPT ![g] = GoroutineIdle]
    /\ UNCHANGED <<writeTx, serviceVars, roundVars, response, constructorVars,
                   repositoryVars, clientVars>>

NextLocks ==
    \/ \E g \in Goroutines, t \in LockTransactions : CallSaveTransaction(g, t)
    \/ \E g \in Goroutines : Lock(g)
    \/ \E g \in Goroutines : Put(g)
    \/ \E g \in Goroutines : UpdateCommit(g)
    \/ \E g \in Goroutines : Unlock(g)
    \/ \E g \in Goroutines, i \in IDs : CallFindTransaction(g, i)
    \/ \E g \in Goroutines : RLock(g)
    \/ \E g \in Goroutines : View(g)
    \/ \E g \in Goroutines : RUnlock(g)

SpecLocks == Init /\ [][NextLocks]_vars

----------------------------------------------------------------------------
(* The Treasury adapter: GetExchangeRates with its retry loop, and         *)
(* ProcessResponse.  A text of the payload is the sequence of its          *)
(* characters; the body of a response is Undecodable or the decoded        *)
(* document [data |-> items].                                              *)

\* the number of attempts of one call
maxRetries == 3

\* the greatest number of data items of a payload
MaxItems == 2

StatusOK == 200
StatusInternalServerError == 500

ErrParsingExchangeRateDateOfRecord(day, month, year) ==
    [error |-> "error parsing exchange rate date of record",
     day |-> day, month |-> month, year |-> year]
ErrInvalidExchangeRateValue == [error |-> "invalid exchange rate value"]
ErrValidation(errs) == [error |-> "validation errors", errs |-> errs]
ErrEmptyField == [error |-> "day, month and/or year must not be empty"]
ErrInvalidDay == [error |-> "invalid day"]
ErrInvalidMonth == [error |-> "invalid month"]
ErrInvalidYear == [error |-> "invalid year"]

\* the error of http.Client.Get when the transport fails
ErrTransport == [error |-> "dial tcp: connection refused"]

DecimalDigits == <<"0", "1", "2", "3", "4", "5", "6", "7", "8", "9">>
IsDigit(c) == \E d \in 1..10 : DecimalDigits[d] = c
DigitValue(c) == (CHOOSE d \in 1..10 : DecimalDigits[d] = c) - 1

\* the number a sequence of decimal digits writes
RECURSIVE DigitsValue(_)
DigitsValue(s) ==
    IF s = <<>> THEN 0
    ELSE 10 * DigitsValue(SubSeq(s, 1, Len(s) - 1)) + DigitValue(s[Len(s)])

\* strconv.Atoi(s): an optional sign and at least one digit
Atoi(s) ==
    LET signed == s # <<>> /\ s[1] \in {"+", "-"}
        digits == IF signed THEN Tail(s) ELSE s
    IN  IF digits = <<>> \/ \E i \in 1..Len(digits) : ~IsDigit(digits[i])
        THEN [n |-> 0, err |-> TRUE]
        ELSE [n |-> IF signed /\ s[1] = "-" THEN -DigitsValue(digits)
                                           ELSE DigitsValue(digits),
              err |-> FALSE]

\* strconv.ParseFloat(s, 64) of a decimal text (an optional sign, digits with
\* at most one point among them, and at least one digit) or of "nan" in
\* either case of its letters, which parses into a NaN with no error
ParseFloat(s) ==
    LET signed == s # <<>> /\ s[1] \in {"+", "-"}
        body   == IF signed THEN Tail(s) ELSE s
        points == {i \in 1..Len(body) : body[i] = "."}
        digits == SelectSeq(body, IsDigit)
        Value(places) ==
            Float64FromDecimal(signed /\ s[1] = "-", BigFromInt(DigitsValue(digits)), places)
    IN  IF Len(s) = 3 /\ s[1] \in {"n", "N"} /\ s[2] \in {"a", "A"} /\ s[3] \in {"n", "N"}
        THEN [f |-> Float64NaN, err |-> FALSE]
        ELSE IF \/ digits = <<>>
                \/ \E i \in 1..Len(body) : ~IsDigit(body[i]) /\ body[i] # "."
                \/ \E i, j \in points : i # j
        THEN [f |-> Nil, err |-> TRUE]
        ELSE IF points = {} THEN [f |-> Value(0), err |-> FALSE]
        ELSE [f |-> Value(Len(body) - (CHOOSE i \in points : TRUE)), err |-> FALSE]

\* ParseDateFromResponse(dayString, monthString, yearString)
ParseDateFromResponse(dayString, monthString, yearString) ==
    LET day   == Atoi(TrimSpace(dayString))
        month == Atoi(TrimSpace(monthString))
        year  == Atoi(TrimSpace(yearString))
    IN  IF TrimSpace(yearString) = <<>> \/ TrimSpace(monthString) = <<>>
            \/ TrimSpace(dayString) = <<>>
        THEN [time |-> Nil, err |-> ErrEmptyField]
        ELSE IF day.err \/ day.n < 1 \/ day.n > 31
        THEN [time |-> Nil, err |-> ErrInvalidDay]
        ELSE IF month.err \/ month.n < 1 \/ month.n > 12
        THEN [time |-> Nil, err |-> ErrInvalidMonth]
        ELSE IF year.err THEN [time |-> Nil, err |-> ErrInvalidYear]
        ELSE [time |-> Date(year.n, month.n, day.n, 0), err |-> Nil]

\* a failing return of the item loop: nil and the error
FailItems(parsed, err) == [rates |-> Nil, err |-> err]

\* the loop of ProcessResponse over data.Data from item i on, parsed holding
\* the rates appended so far (exchangeRates); time.Now() is read as now
RECURSIVE ParseItems(_, _, _, _)
ParseItems(data, i, parsed, now) ==
    IF i > Len(data) THEN [rates |-> parsed, err |-> Nil]
    ELSE
        LET item == data[i]
            dateOfRecord ==
                ParseDateFromResponse(item.RecordDay, item.RecordMonth, item.RecordYear)
            rate == ParseFloat(item.ExchangeRate)
            Construct(made) ==
                IF made = PanicErrNaN THEN PanicErrNaN
                ELSE IF Len(made.errs) > 0
                THEN FailItems(parsed, ErrValidation(made.errs))
                ELSE ParseItems(data, i + 1, Append(parsed, made.instance), now)
        IN  IF dateOfRecord.err # Nil
            THEN FailItems(parsed,
                     ErrParsingExchangeRateDateOfRecord(item.RecordDay, item.RecordMonth,
                                                        item.RecordYear))
            ELSE IF rate.err THEN FailItems(parsed, ErrInvalidExchangeRateValue)
            ELSE Construct(NewExchangeRate(item.Currency, rate.f,
                                           [t |-> dateOfRecord.time, zone |-> 0], now))

Undecodable == [undecodable |-> TRUE]

\* ProcessResponse(resp, currencyName), with time.Now() read as now
ProcessResponse(r, now) ==
    IF r.StatusCode # StatusOK THEN [rates |-> Nil, err |-> ErrTreasuryAPIResponse]
    ELSE IF r.Body = Undecodable THEN [rates |-> Nil, err |-> ErrDecodingResponse]
    ELSE IF Len(r.Body.data) = 0 THEN [rates |-> Nil, err |-> ErrExchangeRateNotFound]
    ELSE ParseItems(r.Body.data, 1, <<>>, now)

\* data items: the two of the unit test (5.434 on 2024-09-30 and 5.5 on
\* 2024-06-30), and items with the day 32 and with the rates "abc", -1 and
\* "NaN"
Items ==
    LET Item(rate, day, month) ==
            [Currency |-> <<"R", "e", "a", "l">>, ExchangeRate |-> rate,
             RecordDay |-> day, RecordMonth |-> month,
             RecordYear |-> <<"2", "0", "2", "4">>]
    IN  {Item(<<"5", ".", "4", "3", "4">>, <<"3", "0">>, <<"0", "9">>),
         Item(<<"5", ".", "5">>, <<"3", "0">>, <<"0", "6">>),
         Item(<<"5", ".", "5">>, <<"3", "2">>, <<"0", "6">>),
         Item(<<"a", "b", "c">>, <<"3", "0">>, <<"0", "6">>),
         Item(<<"-", "1">>, <<"3", "0">>, <<"0", "6">>),
         Item(<<"N", "a", "N">>, <<"3", "0">>, <<"0", "6">>)}

\* the responses Get may return without a transport error
Responses ==
    [StatusCode : {StatusOK, StatusInternalServerError},
     Body : {Undecodable} \cup {[data |-> d] : d \in UNION {[1..n -> Items] : n \in 0..MaxItems}}]

\* 2024-11-06T15:04:05Z, a reading of the clock after the dates of the items
ClientNow == Date(2024, 11, 6, Clock150405)

\* ProcessResponse of every response Get may return, computed once
ProcessedResponses ==
    {[resp |-> r, ret |-> ProcessResponse(r, ClientNow)] : r \in Responses}

\* the loop is left on a response with any status but 200 only
BreaksOnStatusOK(r, err) == err = Nil /\ r.StatusCode = StatusOK

\* if err == nil { break }
Breaks(r, err) == err = Nil

\* the delay is taken after every failed attempt
SleepsAfterEvery(a) == TRUE

\* if attempt < maxRetries-1 { time.Sleep(retryDelay) }
Sleeps(a) == a < maxRetries - 1

\* GetExchangeRates is called: attempt := 0
CallGetExchangeRates ==
    /\ clientPc = "idle"
    /\ clientPc' = "Get"
    /\ attempt' = 0
    /\ trace' = <<>>
    /\ UNCHANGED <<resp, transportErr, clientRet, serviceVars, roundVars, response,
                   constructorVars, repositoryVars, lockVars>>

\* resp, err = a.client.Get(apiURL) returns r and err, and the loop goes on to
\* the break, to the delay, or past its last attempt; trace lists the calls
\* of Get and of time.Sleep the call of GetExchangeRates has made
ClientGet(r, err) ==
    /\ clientPc = "Get"
    /\ resp' = r
    /\ transportErr' = err
    /\ trace' = Append(trace, [call |-> "Get", err |-> err])
    /\ IF Breaks(r, err) THEN clientPc' = "ProcessResponse" /\ attempt' = attempt
       ELSE IF Sleeps(attempt) THEN clientPc' = "Sleep" /\ attempt' = attempt
       ELSE IF attempt + 1 < maxRetries THEN clientPc' = "Get" /\ attempt' = attempt + 1
       ELSE clientPc' = "AfterLoop" /\ attempt' = attempt + 1
    /\ UNCHANGED <<clientRet, serviceVars, roundVars, response, constructorVars,
                   repositoryVars, lockVars>>

\* time.Sleep(retryDelay) returns; attempt++
Sleep ==
    /\ clientPc = "Sleep"
    /\ trace' = Append(trace, [call |-> "Sleep", err |-> Nil])
    /\ attempt' = attempt + 1
    /\ clientPc' = IF attempt + 1 < maxRetries THEN "Get" ELSE "AfterLoop"
    /\ UNCHANGED <<resp, transportErr, clientRet, serviceVars, roundVars, response,
                   constructorVars, repositoryVars, lockVars>>

\* after the loop: if err != nil { return nil, ErrNetworkIssue }
ReturnNetworkIssue ==
    /\ clientPc = "AfterLoop"
    /\ IF transportErr # Nil
       THEN clientPc' = "done" /\ clientRet' = [rates |-> Nil, err |-> ErrNetworkIssue]
       ELSE clientPc' = "ProcessResponse" /\ clientRet' = clientRet
    /\ UNCHANGED <<attempt, resp, transportErr, trace, serviceVars, roundVars, response,
                   constructorVars, repositoryVars, lockVars>>

\* return ProcessResponse(resp, currencyName)
ReturnProcessResponse ==
    /\ clientPc = "ProcessResponse"
    /\ \E p \in ProcessedResponses : p.resp = resp /\ clientRet' = p.ret
    /\ clientPc' = "done"
    /\ UNCHANGED <<attempt, resp, transportErr, trace, serviceVars, roundVars, response,
                   constructorVars, repositoryVars, lockVars>>

\* the caller is done with what GetExchangeRates returned
DropRates ==
    /\ clientPc = "done"
    /\ clientPc' = "idle"
    /\ attempt' = 0
    /\ resp' = Nil
    /\ transportErr' = Nil
    /\ trace' = <<>>
    /\ clientRet' = Nil
    /\ UNCHANGED <<serviceVars, roundVars, response, constructorVars, repositoryVars,
                   lockVars>>

NextClient ==
    \/ CallGetExchangeRates
    \/ \E r \in Responses : ClientGet(r, Nil)
    \/ ClientGet(Nil, ErrTransport)
    \/ Sleep
    \/ ReturnNetworkIssue
    \/ ReturnProcessResponse
    \/ DropRates

SpecClient == Init /\ [][NextClient]_vars

\* every call of Get and every delay returns, and the code goes on
ClientRuns ==
    \/ \E r \in Responses : ClientGet(r, Nil)
    \/ ClientGet(Nil, ErrTransport)
    \/ Sleep
    \/ ReturnNetworkIssue
    \/ ReturnProcessResponse

SpecClientFair == SpecClient /\ WF_vars(ClientRuns)

----------------------------------------------------------------------------
(* Vocabulary of the properties *)

\* the call has returned
Returned == pc = "done"

\* the call has returned and both collaborator fetches had succeeded
BothFetched == pc = "done" /\ transaction # Nil /\ fetchErr = Nil

\* transaction.timestamp minus six calendar months
WindowFloor(tx) == AddDate(tx.Timestamp, 0, -6, 0)

\* positions of the series whose rate is not dated before the window floor
InWindow(rates, tx) ==
    {i \in 1..Len(rates) : rates[i].DateOfRecord >= WindowFloor(tx)}

\* positions of the series whose rate is dated after the transaction
Forward(rates, tx) ==
    {i \in 1..Len(rates) : rates[i].DateOfRecord > tx.Timestamp}

\* the rate the call returned
ReturnedRate == exchangeRates[ret.exchangeRate]

\* the scan as the specification words it, over the first k rates: best is
\* nil (0) for no rates; the k-th rate, when not before the floor, replaces
\* best iff best is nil or the rate is after the transaction and before best
RECURSIVE BestOfFirst(_, _, _)
BestOfFirst(rates, k, tx) ==
    IF k = 0 THEN 0
    ELSE LET best == BestOfFirst(rates, k - 1, tx)
             d == rates[k].DateOfRecord
         IN  IF d < WindowFloor(tx) THEN best
             ELSE IF best = 0 THEN k
             ELSE IF d > tx.Timestamp /\ d < rates[best].DateOfRecord THEN k
             ELSE best

\* the series with the rates at positions i and j exchanged
Swap(rates, i, j) ==
    [k \in 1..Len(rates) |->
        IF k = i THEN rates[j] ELSE IF k = j THEN rates[i] ELSE rates[k]]

----------------------------------------------------------------------------
(* Properties *)

C2_ForwardOfTwo ==
    ( /\ BothFetched
      /\ Len(exchangeRates) = 2
      /\ {exchangeRates[1].DateOfRecord, exchangeRates[2].DateOfRecord}
            = {AddDate(transaction.Timestamp, 0, -3, 0),
               AddDate(transaction.Timestamp, 0, 1, 0)} ) =>
        /\ ret.err = Nil
        /\ ReturnedRate.DateOfRecord = AddDate(transaction.Timestamp, 0, 1, 0)

\* C3: whenever the series holds a rate dated after the transaction, the
\* returned rate is dated after the transaction and no rate dated after the
\* transaction is earlier than it.
C3_EarliestForward ==
    (BothFetched /\ Forward(exchangeRates, transaction) # {}) =>
        /\ ret.err = Nil
        /\ ret.exchangeRate \in Forward(exchangeRates, transaction)
        /\ \A j \in Forward(exchangeRates, transaction) :
              ReturnedRate.DateOfRecord <= exchangeRates[j].DateOfRecord

C5_ReturnedInWindow ==
    (Returned /\ ret.err = Nil) =>
        /\ ret.exchangeRate \in 1..Len(exchangeRates)
        /\ ReturnedRate.DateOfRecord >= WindowFloor(ret.transaction)

\* a successful call whose series holds a rate below the floor
C5_Witness ==
    /\ Returned
    /\ ret.err = Nil
    /\ \E i \in 1..Len(exchangeRates) :
          /\ i < ret.exchangeRate
          /\ exchangeRates[i].DateOfRecord < WindowFloor(ret.transaction)

\* C6: for a series of a single rate: dated six months minus one day before
\* the transaction, the call returns that rate; dated six months and one day
\* before it, the call fails with the no-applicable-rate failure.
C6_WindowFloorBoundary ==
    (BothFetched /\ Len(exchangeRates) = 1) =>
        /\ exchangeRates[1].DateOfRecord = AddDate(transaction.Timestamp, 0, -6, 1) =>
              ret = [transaction |-> transaction, exchangeRate |-> 1, err |-> Nil]
        /\ exchangeRates[1].DateOfRecord = AddDate(transaction.Timestamp, 0, -6, -1) =>
              ret = [transaction |-> Nil, exchangeRate |-> 0,
                     err |-> ErrNoRateInWindow(currencyName)]

\* the rejected side, for the transaction whose floor is a normalised date:
\* 2023-03-02 for the transaction of 2023-08-31
C6_Witness ==
    /\ BothFetched
    /\ transaction.Timestamp = TimeA
    /\ Len(exchangeRates) = 1
    /\ exchangeRates[1].DateOfRecord = Date(2023, 3, 2, Clock150405)
    /\ ret.err = ErrNoRateInWindow(currencyName)

\* the accepted side: 2023-03-04 for the transaction of 2023-09-03
C6_WitnessAccepted ==
    /\ BothFetched
    /\ transaction.Timestamp = TimeB
    /\ Len(exchangeRates) = 1
    /\ exchangeRates[1].DateOfRecord = Date(2023, 3, 4, Clock150405)
    /\ ret.exchangeRate = 1

\* C7: the returned rate is dated within the six months before the
\* transaction: not before the floor and never after the transaction.
C7_WithinPastSixMonths ==
    (Returned /\ ret.err = Nil) =>
        /\ ReturnedRate.DateOfRecord >= WindowFloor(ret.transaction)
        /\ ReturnedRate.DateOfRecord <= ret.transaction.Timestamp

C9_NotFoundVerbatim ==
    (Returned /\ id \notin DOMAIN bucket) =>
        /\ ret = [transaction |-> Nil, exchangeRate |-> 0, err |-> ErrTransactionNotFound]
        /\ fetchErr = Nil
        /\ exchangeRates = <<>>

\* an unknown identifier looked up in a store that holds another transaction
C9_Witness ==
    /\ Returned
    /\ id \notin DOMAIN bucket
    /\ DOMAIN bucket # {}
    /\ ret.err = ErrTransactionNotFound

\* C10: when the transaction exists and GetExchangeRates returns an error,
\* the call returns that error value unchanged with no transaction and no
\* rate, and no rate is selected.
C10_FetchErrorVerbatim ==
    (Returned /\ fetchErr # Nil) =>
        /\ transaction # Nil
        /\ ret = [transaction |-> Nil, exchangeRate |-> 0, err |-> fetchErr]
        /\ exchangeRates = <<>>

\* a stored transaction whose rate fetch failed with a network error
C10_Witness ==
    /\ Returned
    /\ id \in DOMAIN bucket
    /\ fetchErr = ErrNetworkIssue
    /\ ret.err = ErrNetworkIssue

----------------------------------------------------------------------------
\* C11: within one call the transaction repository is asked before the rate
\* collaborator; the rate collaborator is invoked only after FindTransaction
\* has returned a transaction, not at all when FindTransaction failed, and
\* each collaborator is invoked at most once (no retry at the service level).
C11_FetchOrder ==
    /\ calls \in {<<>>, <<"FindTransaction">>, <<"FindTransaction", "GetExchangeRates">>}
    /\ pc = "getExchangeRates" => transaction # Nil /\ calls = <<"FindTransaction">>
    /\ Len(calls) = 2 => transaction # Nil
    /\ pc = "done" /\ transaction = Nil =>
           calls = <<"FindTransaction">> /\ ret.err = ErrTransactionNotFound

\* a call that asked both collaborators in turn and returned a rate
C11_Witness ==
    /\ pc = "done"
    /\ calls = <<"FindTransaction", "GetExchangeRates">>
    /\ ret.err = Nil

\* the other side: a call that stopped after the failed lookup
C11_WitnessFailed ==
    /\ pc = "done"
    /\ calls = <<"FindTransaction">>
    /\ ret.err = ErrTransactionNotFound

----------------------------------------------------------------------------
\* the literal rounded to hundredths in decimal arithmetic, halves away from
\* zero: the digits of the hundredths
HalfAwayHundredths(l) == BigDivSmall(BigAdd(l.digits, <<5>>), 10).q

\* the float64 of the literal sign n / 100
SignedHundredths(neg, n) == Float64FromDecimal(neg, BigFromInt(n), 2)

\* C14: RoundToTwoDecimalPlaces rounds to the nearest hundredth, an exact tie
\* away from zero, for positive and negative arguments: the result for a
\* literal with three decimals is the float64 of that literal rounded half
\* away from zero to two decimals.
C14_NearestHundredthTiesAway ==
    rounded # <<>> =>
        rounded[1] = Float64FromDecimal(literal.neg, HalfAwayHundredths(literal), 2)

\* the values the claim lists: 0.005 -> 0.01, 123.454 -> 123.45,
\* 123.455 -> 123.46, -123.456 -> -123.46, and 123.45 unchanged
C14_ListedValues ==
    rounded # <<>> =>
        /\ literal = [neg |-> FALSE, digits |-> <<5>>, places |-> 3]
               => rounded[1] = SignedHundredths(FALSE, 1)
        /\ literal = [neg |-> FALSE, digits |-> BigFromInt(123454), places |-> 3]
               => rounded[1] = SignedHundredths(FALSE, 12345)
        /\ literal = [neg |-> FALSE, digits |-> BigFromInt(123455), places |-> 3]
               => rounded[1] = SignedHundredths(FALSE, 12346)
        /\ literal = [neg |-> TRUE, digits |-> BigFromInt(123456), places |-> 3]
               => rounded[1] = SignedHundredths(TRUE, 12346)
        /\ literal = [neg |-> FALSE, digits |-> BigFromInt(123450), places |-> 3]
               => rounded[1] = argument

\* C15: rounding is idempotent: RoundToTwoDecimalPlaces applied to its own
\* result returns that result, for every argument.
C15_Idempotent ==
    Len(rounded) = 2 => rounded[2] = rounded[1]

\* idempotence on the arguments below one million
C15_IdempotentBelowMillion ==
    (Len(rounded) = 2 /\ literal # LargeLiteral) => rounded[2] = rounded[1]

----------------------------------------------------------------------------
\* the handler has answered 200
Converted == response # Nil /\ response.status = 200

\* the float64 of the amount in the store and of the rate the service selected
StoredAmount == BigFloatFloat64(UnmarshalTransaction(bucket[id]).AmountInUSD)
SelectedRate == BigFloatFloat64(exchangeRates[ret.exchangeRate].Rate)

\* C12: the converted amount of a response is
\* round2(round2(amount) * round2(rate)) for the stored amount and the
\* selected rate: amount and rate are rounded before the multiplication and
\* the product is rounded again; for the amount 100.004 and the rate 5.4345
\* it is 543.00.
C12_RoundedBeforeMultiplied ==
    Converted =>
        /\ response.data.AmountInTargetCurrency =
               RoundToTwoDecimalPlaces(Float64Mul(RoundToTwoDecimalPlaces(StoredAmount),
                                                  RoundToTwoDecimalPlaces(SelectedRate)))
        /\ (/\ StoredAmount = Float64FromDecimal(FALSE, BigFromInt(100004), 3)
            /\ SelectedRate = Float64FromDecimal(FALSE, BigFromInt(54345), 4))
               => response.data.AmountInTargetCurrency = Hundredths(54300)

\* the response for the amount 100.004 and the rate 5.4345: the rounding of
\* the unrounded product would have given another amount
C12_Witness ==
    /\ Converted
    /\ StoredAmount = Float64FromDecimal(FALSE, BigFromInt(100004), 3)
    /\ SelectedRate = Float64FromDecimal(FALSE, BigFromInt(54345), 4)
    /\ response.data.AmountInTargetCurrency = Hundredths(54300)
    /\ RoundToTwoDecimalPlaces(Float64Mul(StoredAmount, SelectedRate)) # Hundredths(54300)

\* the transaction of 2023-11-06T15:04:05Z with the amount 28.75 is stored
\* under the requested identifier and the series is the single observation
\* of 2023-09-01 with the rate 5.25
C13_Scenario ==
    /\ response # Nil
    /\ id \in DOMAIN bucket
    /\ UnmarshalTransaction(bucket[id]).Timestamp = TimeC
    /\ StoredAmount = Hundredths(2875)
    /\ fetchErr = Nil
    /\ Len(exchangeRates) = 1
    /\ exchangeRates[1].DateOfRecord = Date(2023, 9, 1, 0)
    /\ BigFloatFloat64(exchangeRates[1].Rate) = Hundredths(525)

\* C13: a transaction saved with the timestamp 2023-11-06T15:04:05Z and the
\* amount 28.75, converted with a series whose single observation is the
\* rate 5.25 of 2023-09-01, is answered with success: that observation is
\* selected and the converted amount is 150.94.
C13_EndToEnd ==
    C13_Scenario =>
        /\ response.status = 200
        /\ ret.exchangeRate = 1
        /\ response.data.ExchangeRateUsed = Hundredths(525)
        /\ response.data.AmountInUSD = Hundredths(2875)
        /\ response.data.AmountInTargetCurrency = Hundredths(15094)

\* the scenario has been answered
C13_Witness ==
    /\ C13_Scenario
    /\ response.status = 200
    /\ response.data.AmountInTargetCurrency = Hundredths(15094)

----------------------------------------------------------------------------
\* NewTransaction, NewExchangeRate has returned
ReturnedTransaction == call # Nil /\ call.fn = "NewTransaction"
ReturnedExchangeRate == call # Nil /\ call.fn = "NewExchangeRate"

\* the checks of NewTransaction in their order, each with its failure
TransactionChecks(c) ==
    LET description == TrimSpace(c.description)
    IN  <<[failed |-> description = <<>>, err |-> ErrDescriptionEmpty],
          [failed |-> Len(description) > MaxDescriptionLength, err |-> ErrDescriptionTooLong],
          [failed |-> c.amountInUSD.neg \/ c.amountInUSD.m = <<>>, err |-> ErrInvalidAmountInUSD],
          [failed |-> c.timestamp.t > c.now, err |-> ErrInvalidTimestamp]>>

\* the failures of the checks that failed, in the order of the checks
RECURSIVE FailuresOf(_)
FailuresOf(checks) ==
    IF checks = <<>> THEN <<>>
    ELSE (IF Head(checks).failed THEN <<Head(checks).err>> ELSE <<>>)
             \o FailuresOf(Tail(checks))

\* C16: NewTransaction runs every validator and returns all the failures:
\* the error list is exactly the failing checks in the order description
\* (empty, else too long), amount not positive, timestamp in the future; an
\* empty description with a negative amount yields two failures, the
\* description's first.
C16_AllFailuresInOrder ==
    ReturnedTransaction =>
        /\ result.errs = FailuresOf(TransactionChecks(call))
        /\ (TrimSpace(call.description) = <<>> /\ call.amountInUSD.neg
                /\ call.timestamp.t <= call.now)
               => result.errs = <<ErrDescriptionEmpty, ErrInvalidAmountInUSD>>

\* an empty description with a negative amount and a timestamp in the past
C16_Witness ==
    /\ ReturnedTransaction
    /\ call.description = <<>>
    /\ call.amountInUSD.neg
    /\ call.timestamp.t < call.now
    /\ result.errs = <<ErrDescriptionEmpty, ErrInvalidAmountInUSD>>

C17_WitnessConstructed ==
    /\ ReturnedTransaction
    /\ result.instance # Nil
    /\ result.errs = <<>>

\* C18: the amount of every transaction NewTransaction returns is strictly
\* positive and is the input amount rounded to two decimals, for every
\* accepted amount, those below 0.005 included.
C18_StoredAmountPositive ==
    (ReturnedTransaction /\ result.instance # Nil) =>
        /\ result.instance.AmountInUSD =
               BigFloatSetFloat64(RoundToTwoDecimalPlaces(call.amountInUSD))
        /\ ~result.instance.AmountInUSD.neg
        /\ result.instance.AmountInUSD.mant # <<>>

\* C19: the currency name of every rate NewExchangeRate returns is not empty
\* once trimmed: an empty or blank name is rejected with the
\* currency-name-empty failure and no instance.
C19_CurrencyNameNotBlank ==
    ReturnedExchangeRate =>
        /\ result.instance # Nil => TrimSpace(result.instance.CurrencyName) # <<>>
        /\ TrimSpace(call.currency) = <<>> =>
               result.instance = Nil /\ result.errs[1] = ErrCurrencyEmpty

----------------------------------------------------------------------------
\* C20: after SaveTransaction(t) has returned without error,
\* FindTransaction(t.ID) returns a transaction with the identifier, the
\* amount and the UTC timestamp of t, in the session of the save and after
\* the repository was closed and opened again on the same file and bucket.
C20_StorageRoundTrip ==
    (found # Nil /\ found.err # ErrDatabaseNotOpen /\ found.id \in DOMAIN saved) =>
        /\ found.err = Nil
        /\ found.transaction.ID = saved[found.id].transaction.ID
        /\ found.transaction.AmountInUSD = saved[found.id].transaction.AmountInUSD
        /\ found.transaction.Timestamp = saved[found.id].transaction.Timestamp

\* a transaction with the amount 0.14 found in a later session than the one
\* that saved it
C20_Witness ==
    /\ found # Nil
    /\ found.err = Nil
    /\ found.id \in DOMAIN saved
    /\ saved[found.id].reopened
    /\ found.transaction.AmountInUSD = BigFloatSetFloat64(Hundredths(14))

\* the same in the session of the save
C20_WitnessSameSession ==
    /\ found # Nil
    /\ found.err = Nil
    /\ found.id \in DOMAIN saved
    /\ ~saved[found.id].reopened

\* the goroutines inside the critical section of SaveTransaction and of
\* FindTransaction: between the lock and the deferred unlock
InsideSave == {g \in Goroutines : goroutine[g].pc \in {"Put", "Commit", "Unlock"}}
InsideFind == {g \in Goroutines : goroutine[g].pc \in {"View", "RUnlock"}}

\* what a FindTransaction gets for the record that a SaveTransaction wrote,
\* for each transaction the goroutines save
CompleteRecords == {UnmarshalTransaction(MarshalTransaction(t)) : t \in LockTransactions}

\* C21: at most one SaveTransaction is inside its critical section, and no
\* FindTransaction is inside while one is; every FindTransaction has read
\* either nothing (not found) or the complete record of a SaveTransaction.
C21_SingleWriterManyReaders ==
    /\ \A g, h \in InsideSave : g = h
    /\ InsideSave # {} => InsideFind = {}
    /\ \A g \in Goroutines :
           goroutine[g].pc = "RUnlock" =>
               \/ /\ goroutine[g].found.err = ErrTransactionNotFound
                  /\ goroutine[g].found.transaction = Nil
               \/ /\ goroutine[g].found.err = Nil
                  /\ goroutine[g].found.transaction \in CompleteRecords

\* two FindTransaction calls inside together, both with a record read
C21_Witness ==
    /\ Cardinality(InsideFind) >= 2
    /\ \A g \in InsideFind : goroutine[g].pc = "RUnlock" /\ goroutine[g].found.err = Nil

\* a SaveTransaction inside while another SaveTransaction and a
\* FindTransaction wait for the lock
C21_WitnessWaiting ==
    /\ InsideSave # {}
    /\ \E g \in Goroutines : goroutine[g].pc \in {"Lock", "RLock"}

GetCalls == SelectSeq(trace, LAMBDA e : e.call = "Get")

\* C23: GetExchangeRates ends after at most 3 calls of Get: every call of Get
\* but the last returned a transport error, a delay is taken between two
\* consecutive calls of Get and never after the last, a call of Get that
\* returns no transport error is the last and its response is the one that is
\* processed, and after 3 transport errors the result is no rates and
\* ErrNetworkIssue.
C23_BoundedRetries ==
    /\ [](/\ Len(GetCalls) <= 3
          /\ \A i \in 1..Len(trace) :
                 /\ trace[i].call = (IF i % 2 = 1 THEN "Get" ELSE "Sleep")
                 /\ i < Len(trace) /\ i % 2 = 1 => trace[i].err = ErrTransport
          /\ clientPc = "done" =>
                 /\ trace # <<>> /\ trace[Len(trace)].call = "Get"
                 /\ IF trace[Len(trace)].err = Nil
                    THEN clientRet = ProcessResponse(resp, ClientNow)
                    ELSE /\ Len(GetCalls) = 3
                         /\ clientRet = [rates |-> Nil, err |-> ErrNetworkIssue])
    /\ (clientPc = "Get" ~> clientPc = "done")

\* three calls of Get have returned a transport error, with two delays
C23_Witness ==
    /\ clientPc = "done"
    /\ Len(trace) = 5
    /\ clientRet = [rates |-> Nil, err |-> ErrNetworkIssue]

\* the second call of Get returned a response, which was processed into rates
C23_WitnessSecondAttempt ==
    /\ clientPc = "done"
    /\ Len(trace) = 3
    /\ clientRet # PanicErrNaN
    /\ clientRet.err = Nil

\* C24: a call of Get that returns a response (no transport error) is the
\* last call GetExchangeRates makes, with no delay after it; a response with a
\* status other than 200 gives ErrTreasuryAPIResponse, one with an undecodable
\* body ErrDecodingResponse and one with an empty data list
\* ErrExchangeRateNotFound, each with no rates.
C24_ResponseNeverRetried ==
    /\ \A i \in 1..Len(trace) :
           trace[i].call = "Get" /\ trace[i].err = Nil =>
               i = Len(trace) /\ clientPc \in {"ProcessResponse", "done"}
    /\ clientPc = "done" /\ transportErr = Nil =>
           IF resp.StatusCode # 200
           THEN clientRet = [rates |-> Nil, err |-> ErrTreasuryAPIResponse]
           ELSE IF resp.Body = Undecodable
           THEN clientRet = [rates |-> Nil, err |-> ErrDecodingResponse]
           ELSE resp.Body.data = <<>> =>
                    clientRet = [rates |-> Nil, err |-> ErrExchangeRateNotFound]

\* the first call of Get returned a response with the status 500, and
\* GetExchangeRates has returned
C24_Witness ==
    /\ clientPc = "done"
    /\ transportErr = Nil
    /\ resp.StatusCode = 500
    /\ Len(trace) = 1

\* the second call of Get returned a 200 response with an empty data list
C24_WitnessEmpty ==
    /\ clientPc = "done"
    /\ transportErr = Nil
    /\ resp = [StatusCode |-> 200, Body |-> [data |-> <<>>]]
    /\ Len(trace) = 3

\* the date, the rate and the constructed ExchangeRate of one data item
ItemParsed(item) ==
    LET date == ParseDateFromResponse(item.RecordDay, item.RecordMonth, item.RecordYear)
        rate == ParseFloat(item.ExchangeRate)
        Made(made) ==
            IF made = PanicErrNaN THEN [ok |-> TRUE, instance |-> Nil]
            ELSE [ok |-> made.errs = <<>>, instance |-> made.instance]
    IN  IF date.err # Nil \/ rate.err THEN [ok |-> FALSE, instance |-> Nil]
        ELSE Made(NewExchangeRate(item.Currency, rate.f,
                                  [t |-> date.time, zone |-> 0], ClientNow))

\* the call has ended with what ProcessResponse made of a 200 response
Processed200 == clientPc = "done" /\ transportErr = Nil /\ resp.StatusCode = 200

\* C28: for a 200 response ProcessResponse returns either an error and no
\* list, or no error and a list with one ExchangeRate per data item, in the
\* order of the payload; when one item has an unparsable date, an unparsable
\* rate or fails the validation of the domain, the call returns an error and
\* no list, whatever was parsed before that item.
C28_AllOrNothingInOrder ==
    Processed200 =>
        /\ clientRet # PanicErrNaN
        /\ \/ clientRet.err # Nil /\ clientRet.rates = Nil
           \/ /\ clientRet.err = Nil
              /\ resp.Body # Undecodable
              /\ Len(clientRet.rates) = Len(resp.Body.data)
              /\ \A i \in 1..Len(resp.Body.data) :
                     clientRet.rates[i] = ItemParsed(resp.Body.data[i]).instance
        /\ resp.Body # Undecodable
               /\ (\E i \in 1..Len(resp.Body.data) : ~ItemParsed(resp.Body.data[i]).ok)
               => clientRet.err # Nil /\ clientRet.rates = Nil

\* C28 holds of every 200 response none of whose rates is the text of a NaN
C28_AllOrNothingWithoutNaN ==
    Processed200 /\ clientRet # PanicErrNaN =>
        /\ \/ clientRet.err # Nil /\ clientRet.rates = Nil
           \/ /\ clientRet.err = Nil
              /\ resp.Body # Undecodable
              /\ Len(clientRet.rates) = Len(resp.Body.data)
              /\ \A i \in 1..Len(resp.Body.data) :
                     clientRet.rates[i] = ItemParsed(resp.Body.data[i]).instance
        /\ resp.Body # Undecodable
               /\ (\E i \in 1..Len(resp.Body.data) : ~ItemParsed(resp.Body.data[i]).ok)
               => clientRet.err # Nil /\ clientRet.rates = Nil

\* C25: whenever the service call failed, for a transaction that was not
\* found, for a rate series with no rate in the window or for a failed fetch,
\* the response has the status 404 and the message "the purchase cannot be
\* converted to the target currency" and nothing else: the responses of a
\* not-found transaction and of a missing rate are the same value.
C25_SameFailureResponse ==
    (response # Nil /\ ret.err # Nil) =>
        response = [status |-> 404,
                    error |-> "the purchase cannot be converted to the target currency"]

\* the response to a request whose transaction has no rate in its window
C25_Witness ==
    /\ response # Nil
    /\ ret.err = ErrNoRateInWindow(currencyName)
    /\ response.status = 404

\* the response to a request for a transaction that is not stored
C25_WitnessNotFound ==
    /\ response # Nil
    /\ ret.err = ErrTransactionNotFound
    /\ response.status = 404

\* C26: no step changes or removes the record stored under a transaction id:
\* what SaveTransaction has stored under an id stays as it is through every
\* later SaveTransaction and retrieval.
C26_StoredNeverMutated ==
    [][\A k \in DOMAIN bucket : k \in DOMAIN bucket' /\ bucket'[k] = bucket[k]]_vars

\* what a call returns for the identifier i and the currency c, given the
\* store b and the answer of the rate collaborator (the error e or the series)
ResultOf(b, i, c, e, rates) ==
    LET Selected(r) ==
            IF r.err # Nil THEN ReturnErr(r.err)
            ELSE IF e # Nil THEN ReturnErr(e)
            ELSE SelectAndReturn(r.transaction, rates, c)
    IN  Selected(RepoFindTransaction(b, i))

\* C27: no step of FindTransactionAndExchangeRateFromCurrency, in a call that
\* succeeds or in one that fails, changes the stored transactions; what the
\* call returns is determined by the store as it is and by what the rate
\* collaborator answered in this call; and between two calls nothing of a call
\* is left.
C27_FrameAndStateless ==
    /\ [][(pc # "idle" \/ pc' # "idle") => bucket' = bucket]_vars
    /\ [](Returned => ret = ResultOf(bucket, id, currencyName, fetchErr, exchangeRates))
    /\ [](pc = "idle" =>
             /\ transaction = Nil /\ exchangeRates = <<>> /\ fetchErr = Nil
             /\ ret = NoReturn)

\* a call on a store of two transactions has returned a rate
C27_Witness ==
    /\ Returned
    /\ ret.err = Nil
    /\ DOMAIN bucket = IDs

\* a call on a store of two transactions has failed for want of a rate
C27_WitnessFailed ==
    /\ Returned
    /\ ret.err = ErrNoRateInWindow(currencyName)
    /\ DOMAIN bucket = IDs

\* the series is sorted by date of record, strictly descending
StrictlyDescending(rates) ==
    \A i \in 1..(Len(rates) - 1) : rates[i].DateOfRecord > rates[i + 1].DateOfRecord

\* positions of the rates in the window that are dated at or before the
\* transaction
AtOrBefore(rates, tx) == InWindow(rates, tx) \ Forward(rates, tx)

C29_WitnessAtOrBefore ==
    /\ BothFetched
    /\ StrictlyDescending(exchangeRates)
    /\ Len(exchangeRates) >= 2
    /\ exchangeRates[1].DateOfRecord = transaction.Timestamp
    /\ 2 \in InWindow(exchangeRates, transaction)
    /\ ret.exchangeRate = 1

\* UTC midnight of the calendar day of the window floor
FloorMidnight(tx) ==
    LET c == Civil(WindowFloor(tx)) IN Date(c.year, c.month, c.day, 0)

\* C30: a rate dated exactly six calendar months before the transaction, to
\* the second, is a candidate: the call returns a rate, and returns that one
\* when no other rate of the series is in the window.  A rate dated at UTC
\* midnight of that day, for a transaction later in its day than midnight, is
\* discarded: the call never returns it, and fails when the series holds
\* nothing else in the window.
C30_InclusiveFloorInstant ==
    BothFetched =>
        /\ \A i \in 1..Len(exchangeRates) :
               exchangeRates[i].DateOfRecord = AddDate(transaction.Timestamp, 0, -6, 0) =>
                   /\ ret.err = Nil
                   /\ InWindow(exchangeRates, transaction) = {i} => ret.exchangeRate = i
        /\ Civil(transaction.Timestamp).sec > 0 =>
               /\ ret.err = Nil => ReturnedRate.DateOfRecord # FloorMidnight(transaction)
               /\ (/\ exchangeRates # <<>>
                   /\ \A i \in 1..Len(exchangeRates) :
                          exchangeRates[i].DateOfRecord <= FloorMidnight(transaction))
                   => ret.err = ErrNoRateInWindow(currencyName)

\* a series of the rate at the floor instant alone, after one at midnight of
\* the same day: the rate at the floor instant is returned
C30_Witness ==
    /\ BothFetched
    /\ Len(exchangeRates) = 2
    /\ exchangeRates[1].DateOfRecord = FloorMidnight(transaction)
    /\ exchangeRates[2].DateOfRecord = AddDate(transaction.Timestamp, 0, -6, 0)
    /\ ret.exchangeRate = 2

\* a series of one rate at midnight of the day of the floor: the call fails
C30_WitnessMidnight ==
    /\ BothFetched
    /\ Len(exchangeRates) = 1
    /\ exchangeRates[1].DateOfRecord = FloorMidnight(transaction)
    /\ Civil(transaction.Timestamp).sec > 0
    /\ ret.err = ErrNoRateInWindow(currencyName)

====
